---- MODULE Spec2Model ----
(***************************************************************************)
(* SecretScout: the scan-orchestration pipeline of the native binary.      *)
(* One run of main(): configuration, event-context resolution, binary      *)
(* acquisition, engine execution, exit-status branch, report parsing,      *)
(* comment publication, summary, process exit.                             *)
(***************************************************************************)
EXTENDS Integers, Sequences, FiniteSets, TLC

\* ------------------------------------------------------------------ bounds
\* Largest number of results in a structured report (over all its runs).
MaxResults == 2
\* Largest number of review comments already on the change request.
MaxExisting == 1

\* ------------------------------------------------------- program constants
\* retry_with_backoff: let max_retries = 3
max_retries == 3
\* The engine's "findings" status (--exit-code=2) and generic-failure status.
FINDINGS_STATUS == 2
ENGINE_ERROR_STATUS == 1
\* Status recorded when the engine's status cannot be determined.
UNKNOWN_STATUS == -1

\* ------------------------------------------------------------ option type
None == [tag |-> "None"]
Some(v) == [tag |-> "Some", val |-> v]
IsSome(o) == o.tag = "Some"

Ok(v) == [tag |-> "Ok", val |-> v]
Err(e) == [tag |-> "Err", err |-> e]
IsOk(r) == r.tag = "Ok"
IsErr(r) == r.tag = "Err"

\* ----------------------------------------------------------------- errors
\* An error value: the enum Error with the variant of its sub-enum, and the
\* message it carries (the empty string where the model does not need one).
MkError(cat, kind, msg) == [cat |-> cat, kind |-> kind, msg |-> msg]

ConfigErrorKinds ==
  {"MissingEnvVar", "InvalidEnvVar", "InvalidBoolean", "InvalidGitRef",
   "InvalidPath", "FileNotFound", "PathTraversal", "OutsideWorkspace",
   "InvalidRepository"}
EventErrorKinds ==
  {"UnsupportedEvent", "InvalidEventJson", "MissingField", "NoCommits",
   "FetchPRCommits", "InvalidPRNumber"}
BinaryErrorKinds ==
  {"UnsupportedPlatform", "UnsupportedArchitecture", "DownloadFailed",
   "ExtractionFailed", "BinaryNotFound", "ExecutionFailed", "GitleaksError",
   "ChmodFailed", "CacheError", "VersionResolution"}
SarifErrorKinds ==
  {"FileNotFound", "ParseError", "InvalidStructure", "MissingField",
   "NoResults"}
GitHubErrorKinds ==
  {"RequestFailed", "AuthenticationFailed", "RateLimitExceeded", "NotFound",
   "ParseError", "NetworkError", "Timeout", "DiffTooLarge",
   "MaxRetriesExceeded"}

\* Every variant of the enum Error, as (category, kind) pairs.
ErrorVariants ==
  ({"Config"} \X ConfigErrorKinds) \cup ({"Event"} \X EventErrorKinds) \cup
  ({"Binary"} \X BinaryErrorKinds) \cup ({"Sarif"} \X SarifErrorKinds) \cup
  ({"GitHub"} \X GitHubErrorKinds) \cup
  {<<"Io", "">>, <<"Json", "">>, <<"Http", "">>, <<"License", "">>,
   <<"Unknown", "">>}

\* The arms of Error::severity that are written out explicitly.
SeverityFatalArms ==
  {<<"Config", "MissingEnvVar">>, <<"Config", "InvalidEnvVar">>,
   <<"Config", "PathTraversal">>, <<"Config", "OutsideWorkspace">>,
   <<"Event", "UnsupportedEvent">>,
   <<"Binary", "UnsupportedPlatform">>, <<"Binary", "UnsupportedArchitecture">>,
   <<"Binary", "DownloadFailed">>, <<"Binary", "GitleaksError">>,
   <<"Sarif", "FileNotFound">>, <<"Sarif", "ParseError">>,
   <<"GitHub", "AuthenticationFailed">>, <<"License", "">>}
SeverityExpectedArms == {<<"Event", "NoCommits">>}
SeverityNonFatalArms ==
  {<<"Binary", "CacheError">>, <<"Binary", "VersionResolution">>,
   <<"GitHub", "DiffTooLarge">>, <<"GitHub", "NotFound">>,
   <<"GitHub", "RateLimitExceeded">>}

\* Error::severity, a mutant of it: the default arm is NonFatal.
severity_default_nonfatal(e) ==
  LET v == <<e.cat, e.kind>> IN
  IF v \in SeverityFatalArms THEN "Fatal"
  ELSE IF v \in SeverityExpectedArms THEN "Expected"
  ELSE "NonFatal"

\* Error::severity
severity(e) ==
  LET v == <<e.cat, e.kind>> IN
  IF v \in SeverityFatalArms THEN "Fatal"
  ELSE IF v \in SeverityExpectedArms THEN "Expected"
  ELSE IF v \in SeverityNonFatalArms THEN "NonFatal"
  ELSE "Fatal"

\* ------------------------------------------------------------------ state
VARIABLES
  pc,                \* position of main()/run()
  config,            \* Option<Config>: the loaded configuration
  event_json,        \* Option: the payload read by read_event_file
  event_context,     \* Option<EventContext>
  pr_local,          \* parse_pull_request_event: its locals across the fetch
  cache,             \* the cache directory entry of the resolved cache key
  binary_path,       \* Option<PathBuf> returned by obtain_binary
  execution_result,  \* Option<ExecutionResult>
  findings,          \* Vec<DetectedSecret> extracted from the report
  existing_comments, \* post_pr_comments: the fetched existing comments
  fetch_outcome,     \* history: how the existing-comment fetch ended
  idx,               \* post_pr_comments: index of the next finding
  posted,            \* post_pr_comments: let mut posted
  skipped,           \* post_pr_comments: let mut skipped
  comments_result,   \* Option<Result<usize>> returned by post_pr_comments
  retry,             \* the frame of the running retry_with_backoff call
  run_result,        \* Option<Result<i32>> returned by run()
  exit_code,         \* Option<i32> passed to process::exit
  stages,            \* history: the stage events of the run, in order
  issued,            \* history: the remote operations a request was sent for
  downloads,         \* history: number of download requests sent
  engine_log,        \* history: how each launch of the engine ended
  summary_writes,    \* history: the write_summary calls, in order
  post_log,          \* history: per handled finding, what happened to it
  pr_comment,        \* post_pr_comments: Option<PRComment>, the comment built last
  call,              \* a function called on its own: its name and arguments
  ret                \* the value that call returned

vars ==
  <<pc, config, event_json, event_context, pr_local, cache, binary_path, execution_result, findings,
    existing_comments, fetch_outcome, idx, posted, skipped, comments_result, retry,
    run_result, exit_code, stages, issued, downloads, engine_log,
    summary_writes, post_log, pr_comment, call, ret>>

\* No function is being called on its own.
NoCall == [fn |-> "none"]

\* The remote operations and the download, as counted in `issued`.
RemoteOps ==
  {"fetch_pr_commits", "fetch_pr_comments", "post_pr_comment",
   "fetch_latest_version", "download_binary"}
CommentOps == {"fetch_pr_comments", "post_pr_comment"}

\* The idle retry frame (no retry_with_backoff call in progress).
NoRetry ==
  [op |-> "none", attempt |-> 0, calls |-> 0, errs |-> <<>>, slept |-> <<>>,
   status |-> "idle", value |-> None]


\* ----------------------------------------------------------- environment
\* Values of GITHUB_EVENT_NAME.
EventNames ==
  {"push", "pull_request", "workflow_dispatch", "schedule", "release"}
\* Values of GITLEAKS_VERSION.
VersionInputs == {"8.24.3", "latest"}
\* Values of BASE_REF (None when unset), and those of the pipeline runs.
BaseRefInputs == {None, Some("main"), Some(""), Some("main;id")}
RunBaseRefs == {None}
\* Values of GITHUB_TOKEN ("" when unset: unwrap_or_default).
TokenInputs == {"", "ghp_t"}
\* The repository block of a well-formed payload, and the values of
\* GITHUB_REPOSITORY / GITHUB_REPOSITORY_OWNER of the same repository.
PayloadRepository ==
  [owner |-> Some("octo"), name |-> Some("app"), full_name |-> Some("octo/app"),
   html_url |-> Some("https://github.com/octo/app")]
EnvRepository == "octo/app"
EnvRepositoryOwner == "octo"
\* How Config::from_env can fail on the environment.
ConfigFailures ==
  {"MissingEnvVar", "PathTraversal", "InvalidPath", "FileNotFound",
   "OutsideWorkspace", "InvalidRepository"}

\* The cache directory entry of a key: whether the directory and the binary
\* file in it exist, whether the extraction that wrote it ran to completion,
\* and whether mode 0755 was applied to the binary.
EmptyCache == [dir |-> FALSE, binary |-> FALSE, complete |-> FALSE,
               mode755 |-> FALSE]
FullCache == [dir |-> TRUE, binary |-> TRUE, complete |-> TRUE,
              mode755 |-> TRUE]

Init ==
  /\ pc = "main"
  /\ config = None
  /\ event_json = None
  /\ event_context = None
  /\ pr_local = None
  /\ cache \in {EmptyCache, FullCache}
  /\ binary_path = None
  /\ execution_result = None
  /\ findings = <<>>
  /\ existing_comments = {}
  /\ fetch_outcome = "none"
  /\ idx = 1
  /\ posted = 0
  /\ skipped = 0
  /\ comments_result = None
  /\ retry = NoRetry
  /\ run_result = None
  /\ exit_code = None
  /\ stages = <<>>
  /\ issued = {}
  /\ downloads = 0
  /\ engine_log = <<>>
  /\ summary_writes = <<>>
  /\ post_log = <<>>
  /\ call = NoCall
  /\ ret = None
  /\ pr_comment = None

\* run() returns r: the frame is left and main() takes over.
Return(r) ==
  /\ run_result' = Some(r)
  /\ pc' = "returned"

\* ---------------------------------------------------- Config::from_env
\* run(), step 1: let config = config::Config::from_env()?
LoadConfigWith(baseRefs) ==
  /\ pc = "main"
  /\ \/ \E k \in ConfigFailures :
          /\ Return(Err(MkError("Config", k, "")))
          /\ UNCHANGED config
     \/ \E en \in EventNames, tok \in TokenInputs, ver \in VersionInputs,
           br \in baseRefs, es \in BOOLEAN, ea \in BOOLEAN,
           ec \in BOOLEAN :
          IF en = "pull_request" /\ tok = ""
          THEN /\ Return(Err(MkError("Config", "MissingEnvVar", "")))
               /\ UNCHANGED config
          ELSE /\ config' = Some([event_name |-> en, github_token |-> tok,
                                  gitleaks_version |-> ver, base_ref |-> br,
                                  notify_user_list |-> <<>>,
                                  repository |-> EnvRepository,
                                  repository_owner |-> EnvRepositoryOwner,
                                  enable_summary |-> es,
                                  enable_upload_artifact |-> ea,
                                  enable_comments |-> ec])
               /\ pc' = "parse_event"
               /\ UNCHANGED run_result
  /\ UNCHANGED <<event_json, event_context, pr_local, cache, binary_path,
                 execution_result, findings, existing_comments, fetch_outcome, idx, posted,
                 skipped, comments_result, retry, exit_code, stages, issued, downloads,
                 engine_log, summary_writes, post_log>>
  /\ UNCHANGED <<call, ret, pr_comment>>

\* ------------------------------------------------- remote failure texts
\* What a failed request reports (e.to_string() of the transport error),
\* and the marker substrings each text contains.
FailureTexts == {"422 Unprocessable Entity", "timed out"}
TextMarkers(t) ==
  CASE t = "422 Unprocessable Entity" -> {"422", "Unprocessable"}
    [] t = "401 Unauthorized" -> {"401"}
    [] t = "403 Forbidden" -> {"403"}
    [] t = "404 Not Found" -> {"404"}
    [] t = "422 on /pulls/404" -> {"422", "404"}
    [] t = "403 on /pulls/404" -> {"403", "404"}
    [] OTHER -> {}
Contains(t, marker) == marker \in TextMarkers(t)

\* What a failed post request can report.
PostErrorTexts ==
  {"422 Unprocessable Entity", "401 Unauthorized", "403 Forbidden",
   "404 Not Found", "422 on /pulls/404", "403 on /pulls/404", "timed out"}

\* A mutant of the classification: the "404" test comes first.
classify_post_error_not_found_first(t) ==
  IF Contains(t, "404")
  THEN MkError("GitHub", "NotFound", t)
  ELSE IF Contains(t, "422") \/ Contains(t, "Unprocessable")
  THEN MkError("GitHub", "DiffTooLarge", "")
  ELSE IF Contains(t, "401") \/ Contains(t, "403")
  THEN MkError("GitHub", "AuthenticationFailed", t)
  ELSE MkError("GitHub", "RequestFailed", t)

\* post_pr_comment: the map_err closure classifying a failed post.
classify_post_error(t) ==
  IF Contains(t, "422") \/ Contains(t, "Unprocessable")
  THEN MkError("GitHub", "DiffTooLarge", "")
  ELSE IF Contains(t, "401") \/ Contains(t, "403")
  THEN MkError("GitHub", "AuthenticationFailed", t)
  ELSE IF Contains(t, "404")
  THEN MkError("GitHub", "NotFound", t)
  ELSE MkError("GitHub", "RequestFailed", t)

\* The map_err closure of each retried operation.
map_err(op, t) ==
  IF op = "post_pr_comment" THEN classify_post_error(t)
  ELSE MkError("GitHub", "RequestFailed", t)

\* ------------------------------------------------- retry_with_backoff
\* A mutant of the error returned on exhaustion: the first attempt's error.
exhausted_error_first(errs) == errs[1]

\* retry_with_backoff: the error returned by the last attempt (return Err(e)).
exhausted_error(errs) == errs[Len(errs)]

\* A mutant of the retry test: one more attempt is allowed.
may_retry_off_by_one(attempt) == attempt < max_retries

\* retry_with_backoff: if attempt < max_retries - 1
may_retry(attempt) == attempt < max_retries - 1

\* A mutant of the delay: the exponent is the number of the attempt (from 1).
backoff_delay_from_two(attempt) == 1 * (2 ^ (attempt + 1))

\* let delay = base_delay * 2_u32.pow(attempt), in seconds (base_delay = 1 s)
backoff_delay(attempt) == 1 * (2 ^ attempt)

\* A retry_with_backoff call starts for operation op.
StartRetry(op) ==
  retry' = [op |-> op, attempt |-> 0, calls |-> 0, errs |-> <<>>,
            slept |-> <<>>, status |-> "running", value |-> None]

\* One iteration of `for attempt in 0..max_retries`: f().await and the match
\* on its result. `responses` is what a successful request can return for the
\* operation of the frame, `texts` what a failed one can report.
RetryAttemptOn(responses, texts) ==
  /\ retry.status = "running"
  /\ retry.attempt < max_retries
  /\ issued' = issued \cup {retry.op}
  /\ \/ \E v \in responses :
          retry' = [retry EXCEPT !.calls = @ + 1, !.status = "ok",
                                 !.value = v]
     \/ \E t \in texts :
          LET e == map_err(retry.op, t)
              errs == Append(retry.errs, e) IN
          IF may_retry(retry.attempt)
          THEN retry' = [retry EXCEPT
                           !.calls = @ + 1,
                           !.errs = errs,
                           !.slept = Append(@, backoff_delay(retry.attempt)),
                           !.attempt = @ + 1]
          ELSE retry' = [retry EXCEPT
                           !.calls = @ + 1,
                           !.errs = errs,
                           !.status = "err",
                           !.value = exhausted_error(errs)]

\* One iteration of the loop with the failure texts of the pipeline runs.
RetryAttemptWith(responses) == RetryAttemptOn(responses, FailureTexts)

\* ------------------------------------------------------- trigger payload

\* full_name.trim_start_matches("{owner}/") on the values above.
TrimOwnerPrefix(full_name, owner) ==
  IF full_name = "octo/app" /\ owner = "octo" THEN "app" ELSE full_name

\* format!("https://github.com/{}", full_name) on the values above.
GithubUrl(full_name) ==
  IF full_name = "octo/app" THEN "https://github.com/octo/app"
  ELSE "https://github.com/"

\* Commit shas; the entry of a commits array for a commit (its id or sha, the
\* name and email of its author and its message, each a string or missing);
\* an entry that lacks one of these; and the entry without an id, which both
\* parse_commit and the filter of fetch_pr_commits reject.
Shas == {"s1", "s2"}
CommitJson(sha) ==
  [id |-> Some(sha), name |-> Some("ann"), email |-> Some("ann@x.io"),
   message |-> Some("fix")]
EntryLacking(field) == [CommitJson("s1") EXCEPT ![field] = None]
BadEntry == EntryLacking("id")
CommitEntries == {CommitJson(sha) : sha \in Shas} \cup {BadEntry}

\* All sequences over S of length at most n.
SeqsUpTo(S, n) == UNION {[1..k -> S] : k \in 0..n}

\* The commits arrays of the payloads and of the remote commit lists of the
\* pipeline runs.
RunCommitLists ==
  {<<>>, <<BadEntry>>, <<CommitJson("s1")>>,
   <<CommitJson("s1"), CommitJson("s2")>>,
   <<EntryLacking("name"), EntryLacking("message"), CommitJson("s2"),
     EntryLacking("email")>>}

\* The pull_request block of a change-request payload.
FullPullRequest ==
  [number |-> Some(7), base_sha |-> Some("b0"), base_ref |-> Some("main"),
   head_sha |-> Some("h0"), head_ref |-> Some("topic")]

\* The trigger payloads of the pipeline runs: an unreadable or malformed event
\* file; push payloads (repository block, commits array); change-request
\* payloads (repository block, pull_request block); and manual-dispatch and
\* scheduled payloads (a repository block, or none at all).
BrokenRepository == [PayloadRepository EXCEPT !.owner = None]
RunPayloads ==
  {[readable |-> FALSE, repository |-> None, commits |-> None,
    pull_request |-> None]} \cup
  [readable : {TRUE},
   repository : {Some(PayloadRepository), Some(BrokenRepository)},
   commits : {Some(c) : c \in RunCommitLists},
   pull_request : {None}] \cup
  [readable : {TRUE},
   repository : {Some(PayloadRepository)},
   commits : {None},
   pull_request : {Some(FullPullRequest),
                   Some([FullPullRequest EXCEPT !.number = None])}] \cup
  [readable : {TRUE},
   repository : {None, Some(PayloadRepository)},
   commits : {None},
   pull_request : {None}]

\* The commit lists a successful remote commit fetch returns (entries that the
\* filter_map of fetch_pr_commits rejects included).
CommitResponses == RunCommitLists

\* ------------------------------------------------------------ events
\* EventType::from_str
EventType_from_str(s) ==
  CASE s = "push" -> Ok("Push")
    [] s = "pull_request" -> Ok("PullRequest")
    [] s = "workflow_dispatch" -> Ok("WorkflowDispatch")
    [] s = "schedule" -> Ok("Schedule")
    [] OTHER -> Err(MkError("Event", "UnsupportedEvent", s))

\* read_event_file
read_event_file(payload) ==
  IF payload.readable THEN Ok(payload)
  ELSE Err(MkError("Event", "InvalidEventJson", ""))

\* parse_repository
parse_repository(json, cfg) ==
  IF IsSome(json.repository)
  THEN LET r == json.repository.val IN
       IF ~IsSome(r.owner)
       THEN Err(MkError("Event", "MissingField", "repository.owner.login"))
       ELSE IF ~IsSome(r.name)
       THEN Err(MkError("Event", "MissingField", "repository.name"))
       ELSE IF ~IsSome(r.full_name)
       THEN Err(MkError("Event", "MissingField", "repository.full_name"))
       ELSE IF ~IsSome(r.html_url)
       THEN Err(MkError("Event", "MissingField", "repository.html_url"))
       ELSE Ok([owner |-> r.owner.val, name |-> r.name.val,
                full_name |-> r.full_name.val, html_url |-> r.html_url.val])
  ELSE Ok([owner |-> cfg.repository_owner,
           name |-> TrimOwnerPrefix(cfg.repository, cfg.repository_owner),
           full_name |-> cfg.repository,
           html_url |-> GithubUrl(cfg.repository)])

\* A mutant of parse_commit: a missing author name or email is defaulted.
parse_commit_defaults_author(commit_json) ==
  IF IsSome(commit_json.id) /\ IsSome(commit_json.message)
  THEN Some(commit_json.id.val)
  ELSE None

\* parse_commit: each of id, author.name, author.email and message is read
\* with as_str()?; the Commit is kept as its sha.
parse_commit(commit_json) ==
  IF /\ IsSome(commit_json.id)
     /\ IsSome(commit_json.name)
     /\ IsSome(commit_json.email)
     /\ IsSome(commit_json.message)
  THEN Some(commit_json.id.val)
  ELSE None

\* The closure of the filter_map of fetch_pr_commits: sha and commit.message
\* are read with as_str()?, the author's name and email with
\* as_str().unwrap_or("unknown").
fetched_commit(c) ==
  IF IsSome(c.id) /\ IsSome(c.message) THEN Some(c.id.val) ELSE None

\* The commits of a commits array that parse_commit accepts, in order
\* (commits_array.iter().filter_map(|c| parse_commit(c)).collect()).
RECURSIVE filter_commits(_)
filter_commits(entries) ==
  IF entries = <<>> THEN <<>>
  ELSE LET commit == parse_commit(Head(entries)) IN
       IF IsSome(commit)
       THEN <<commit.val>> \o filter_commits(Tail(entries))
       ELSE filter_commits(Tail(entries))

\* The commits of a fetched list that the filter_map of fetch_pr_commits
\* accepts, in order.
RECURSIVE filter_fetched(_)
filter_fetched(entries) ==
  IF entries = <<>> THEN <<>>
  ELSE LET commit == fetched_commit(Head(entries)) IN
       IF IsSome(commit)
       THEN <<commit.val>> \o filter_fetched(Tail(entries))
       ELSE filter_fetched(Tail(entries))

\* A mutant of the base ref: the configured override is not looked at.
base_ref_of_ignores_override(cfg, commits) == commits[1]

\* config.base_ref.clone().unwrap_or_else(|| commits[0].sha.clone())
base_ref_of(cfg, commits) ==
  IF IsSome(cfg.base_ref) THEN cfg.base_ref.val ELSE commits[1]

\* A mutant of parse_push_event: an empty commits array is a missing field.
parse_push_event_empty_is_missing(json, repository, cfg) ==
  IF ~IsSome(json.commits) \/ json.commits.val = <<>>
  THEN Err(MkError("Event", "MissingField", "commits"))
  ELSE LET commits == filter_commits(json.commits.val) IN
       IF commits = <<>> THEN Err(MkError("Event", "NoCommits", ""))
       ELSE Ok([event_type |-> "Push", repository |-> repository,
                base_ref |-> base_ref_of(cfg, commits),
                head_ref |-> commits[Len(commits)],
                commits |-> commits, pull_request |-> None])

\* parse_push_event
parse_push_event(json, repository, cfg) ==
  IF ~IsSome(json.commits)
  THEN Err(MkError("Event", "MissingField", "commits"))
  ELSE IF json.commits.val = <<>>
  THEN Err(MkError("Event", "NoCommits", ""))
  ELSE LET commits == filter_commits(json.commits.val) IN
       IF commits = <<>> THEN Err(MkError("Event", "NoCommits", ""))
       ELSE Ok([event_type |-> "Push", repository |-> repository,
                base_ref |-> base_ref_of(cfg, commits),
                head_ref |-> commits[Len(commits)],
                commits |-> commits, pull_request |-> None])

\* parse_pull_request_event, up to the remote commit fetch: the PullRequest
\* descriptor read from the payload.
parse_pull_request_fields(json) ==
  IF ~IsSome(json.pull_request)
  THEN Err(MkError("Event", "MissingField", "pull_request"))
  ELSE LET p == json.pull_request.val IN
       IF ~IsSome(p.number)
       THEN Err(MkError("Event", "MissingField", "pull_request.number"))
       ELSE IF ~IsSome(p.base_sha)
       THEN Err(MkError("Event", "MissingField", "pull_request.base.sha"))
       ELSE IF ~IsSome(p.base_ref)
       THEN Err(MkError("Event", "MissingField", "pull_request.base.ref"))
       ELSE IF ~IsSome(p.head_sha)
       THEN Err(MkError("Event", "MissingField", "pull_request.head.sha"))
       ELSE IF ~IsSome(p.head_ref)
       THEN Err(MkError("Event", "MissingField", "pull_request.head.ref"))
       ELSE Ok([number |-> p.number.val,
                base |-> [sha |-> p.base_sha.val, ref_name |-> p.base_ref.val],
                head |-> [sha |-> p.head_sha.val, ref_name |-> p.head_ref.val]])

\* A mutant of the whole-repository parsers: the refs name the checked-out
\* commit.
parse_whole_repository_event_head(event_type, repository) ==
  Ok([event_type |-> event_type, repository |-> repository,
      base_ref |-> "HEAD", head_ref |-> "HEAD", commits |-> <<>>,
      pull_request |-> None])

\* parse_workflow_dispatch_event / parse_schedule_event
parse_whole_repository_event(event_type, repository) ==
  Ok([event_type |-> event_type, repository |-> repository, base_ref |-> "",
      head_ref |-> "", commits |-> <<>>, pull_request |-> None])

\* create_client: building the API client can fail before any request.
ClientOutcomes == {"ok", "build_failed"}
create_client_error == MkError("GitHub", "NetworkError", "client build failed")

\* ------------------------------------------------ parse_event_context
\* run(), step 2: events::parse_event_context(&config).await?  For a change
\* request the action ends where fetch_pr_commits awaits its first request.
ParseEventContextWith(payloads) ==
  /\ pc = "parse_event"
  /\ \E payload \in payloads, client \in ClientOutcomes :
       LET cfg == config.val
           et == EventType_from_str(cfg.event_name)
           ej == read_event_file(payload)
           repo == parse_repository(payload, cfg)
           started == Append(stages, "event:start")
           Fail(e) == /\ Return(Err(e))
                      /\ stages' = started
                      /\ UNCHANGED <<event_context, pr_local, retry>>
           Done(ctx) == /\ event_context' = Some(ctx)
                        /\ stages' = Append(started, "event:ok")
                        /\ pc' = "obtain_binary"
                        /\ UNCHANGED <<pr_local, retry, run_result>>
       IN
       IF IsErr(et) THEN Fail(et.err) /\ UNCHANGED event_json
       ELSE IF IsErr(ej) THEN Fail(ej.err) /\ UNCHANGED event_json
       ELSE
         /\ event_json' = Some(ej.val)
         /\ IF IsErr(repo) THEN Fail(repo.err)
            ELSE IF et.val = "Push"
            THEN LET r == parse_push_event(payload, repo.val, cfg) IN
                 IF IsErr(r) THEN Fail(r.err) ELSE Done(r.val)
            ELSE IF et.val = "PullRequest"
            THEN LET f == parse_pull_request_fields(payload) IN
                 IF IsErr(f) THEN Fail(f.err)
                 ELSE IF client # "ok" THEN Fail(create_client_error)
                 ELSE /\ pr_local' = Some([repository |-> repo.val,
                                           pull_request |-> f.val])
                      /\ StartRetry("fetch_pr_commits")
                      /\ stages' = started
                      /\ pc' = "pr_commits"
                      /\ UNCHANGED <<event_context, run_result>>
            ELSE LET r == parse_whole_repository_event(et.val, repo.val) IN
                 Done(r.val)
  /\ UNCHANGED <<config, cache, binary_path, execution_result, findings,
                 existing_comments, fetch_outcome, idx, posted, skipped,
                 comments_result, exit_code, issued, downloads, engine_log,
                 summary_writes, post_log>>
  /\ UNCHANGED <<call, ret, pr_comment>>

\* One request of the retried commit fetch of fetch_pr_commits.
FetchCommitsAttempt ==
  /\ pc = "pr_commits"
  /\ RetryAttemptWith(CommitResponses)
  /\ UNCHANGED <<pc, config, event_json, event_context, pr_local, cache, binary_path,
                 execution_result, findings, existing_comments, fetch_outcome, idx, posted,
                 skipped, comments_result, run_result, exit_code, stages,
                 downloads, engine_log, summary_writes, post_log>>
  /\ UNCHANGED <<call, ret, pr_comment>>

\* A mutant of the head ref of a change request: the payload's head sha.
pr_head_ref_from_payload(pull_request, pr_commits) == pull_request.head.sha

\* parse_pull_request_event: let head_ref = pr_commits.last().unwrap().sha
pr_head_ref(pull_request, pr_commits) == pr_commits[Len(pr_commits)]

\* parse_pull_request_event after `fetch_pr_commits(..).await?` returned.
FinishPullRequestEvent ==
  /\ pc = "pr_commits"
  /\ retry.status \in {"ok", "err"}
  /\ retry' = NoRetry
  /\ pr_local' = None
  /\ IF retry.status = "err"
     THEN /\ Return(Err(retry.value))
          /\ UNCHANGED <<event_context, stages>>
     ELSE LET pr_commits == filter_fetched(retry.value)
              cfg == config.val IN
          IF pr_commits = <<>>
          THEN /\ Return(Err(MkError("Event", "NoCommits", "")))
               /\ UNCHANGED <<event_context, stages>>
          ELSE /\ event_context' =
                    Some([event_type |-> "PullRequest",
                          repository |-> pr_local.val.repository,
                          base_ref |-> base_ref_of(cfg, pr_commits),
                          head_ref |-> pr_head_ref(pr_local.val.pull_request,
                                                   pr_commits),
                          commits |-> pr_commits,
                          pull_request |-> Some(pr_local.val.pull_request)])
               /\ stages' = Append(stages, "event:ok")
               /\ pc' = "obtain_binary"
               /\ UNCHANGED run_result
  /\ UNCHANGED <<config, event_json, cache, binary_path, execution_result, findings,
                 existing_comments, fetch_outcome, idx, posted, skipped, comments_result,
                 exit_code, issued, downloads, engine_log, summary_writes, post_log>>
  /\ UNCHANGED <<call, ret, pr_comment>>

\* ------------------------------------------------------------- binary
\* std::env::consts::OS / ARCH of the hosts of the pipeline runs.
RunHostOS == {"linux", "freebsd"}
RunHostArch == {"x86_64", "riscv64"}

\* Platform::detect
Platform_detect(os) ==
  CASE os = "linux" -> Ok("Linux")
    [] os = "macos" -> Ok("Darwin")
    [] os = "windows" -> Ok("Windows")
    [] OTHER -> Err(MkError("Binary", "UnsupportedPlatform", os))

\* Architecture::detect
Architecture_detect(arch) ==
  CASE arch \in {"x86_64", "amd64"} -> Ok("X64")
    [] arch \in {"aarch64", "arm64"} -> Ok("Arm64")
    [] arch = "arm" -> Ok("Arm")
    [] OTHER -> Err(MkError("Binary", "UnsupportedArchitecture", arch))

\* The tag_name values of the release-metadata response, and
\* tag_name.trim_start_matches('v') on them.
LatestTags == {"v8.24.3"}
TrimV(tag) ==
  CASE tag = "v8.24.3" -> "8.24.3"
    [] tag = "vv8.24.3" -> "8.24.3"
    [] OTHER -> tag

\* Platform::as_str
Platform_as_str(platform) ==
  CASE platform = "Linux" -> "linux"
    [] platform = "Darwin" -> "darwin"
    [] platform = "Windows" -> "windows"

\* Architecture::as_str
Architecture_as_str(arch) ==
  CASE arch = "X64" -> "x64"
    [] arch = "Arm64" -> "arm64"
    [] arch = "Arm" -> "arm"

\* A mutant of get_cache_key: the architecture is left out.
get_cache_key_without_arch(version, platform, arch) ==
  "gitleaks-" \o version \o "-" \o Platform_as_str(platform)

\* get_cache_key:
\* format!("gitleaks-{}-{}-{}", version, platform.as_str(), arch.as_str())
get_cache_key(version, platform, arch) ==
  "gitleaks-" \o version \o "-" \o Platform_as_str(platform) \o "-" \o
  Architecture_as_str(arch)

\* The binary file name inside the cache directory of a key.
binary_name(platform) ==
  IF platform = "Windows" THEN "gitleaks.exe" ELSE "gitleaks"

\* The path cache_dir/key/binary_name.
BinaryPathOf(version, platform, arch) ==
  [key |-> get_cache_key(version, platform, arch),
   name |-> binary_name(platform)]

\* Where download_binary stops: the failing step, or "ok".
DownloadStops ==
  {"request", "status", "body", "cache_dir", "remove", "create", "extract",
   "not_found", "chmod", "ok"}

\* The error download_binary returns when it stops at a step.
download_error(stop) ==
  CASE stop \in {"request", "status", "body"} ->
         MkError("Binary", "DownloadFailed", stop)
    [] stop = "cache_dir" -> MkError("Binary", "CacheError", "")
    [] stop \in {"remove", "create", "extract"} ->
         MkError("Binary", "ExtractionFailed", stop)
    [] stop = "not_found" -> MkError("Binary", "BinaryNotFound", "")
    [] OTHER -> MkError("Binary", "ChmodFailed", "")

\* The cache entries download_binary can leave behind when it stops at a step
\* (a failing remove_dir_all or unpack may have done part of its work).
download_leaves(stop, c) ==
  CASE stop \in {"request", "status", "body", "cache_dir"} -> {c}
    [] stop = "remove" ->
         {[c EXCEPT !.binary = b, !.complete = FALSE] : b \in {c.binary, FALSE}}
    [] stop = "create" -> {EmptyCache}
    [] stop = "extract" ->
         {[dir |-> TRUE, binary |-> b, complete |-> FALSE, mode755 |-> FALSE] :
            b \in BOOLEAN}
    [] stop = "not_found" ->
         {[dir |-> TRUE, binary |-> FALSE, complete |-> TRUE,
           mode755 |-> FALSE]}
    [] stop = "chmod" ->
         {[dir |-> TRUE, binary |-> TRUE, complete |-> TRUE,
           mode755 |-> FALSE]}
    [] OTHER -> {FullCache}

\* A mutant of check_cache: the lookup never finds the binary.
check_cache_never(cache_dir_ok, c) == FALSE

\* check_cache: get_cache_dir().ok()? and cached_path.exists()
check_cache(cache_dir_ok, c) == cache_dir_ok /\ c.binary

\* run(), step 3: binary::obtain_binary(&config).await?
ObtainBinaryIn(hostOS, hostArch, cacheDirs) ==
  /\ pc = "obtain_binary"
  /\ \E os \in hostOS, cpu \in hostArch, latest \in {"failed"} \cup LatestTags,
        cache_dir_ok \in cacheDirs, stop \in DownloadStops :
       LET cfg == config.val
           platform == Platform_detect(os)
           arch == Architecture_detect(cpu)
           lookup == cfg.gitleaks_version = "latest"
           version == IF lookup THEN TrimV(latest) ELSE cfg.gitleaks_version
           started == Append(stages, "binary:start")
           looked == IF lookup THEN issued \cup {"fetch_latest_version"}
                     ELSE issued
           Fail(e, iss, dl, c) ==
             /\ Return(Err(e))
             /\ stages' = started
             /\ issued' = iss
             /\ downloads' = downloads + dl
             /\ cache' = c
             /\ UNCHANGED binary_path
           Done(path, iss, dl, c) ==
             /\ binary_path' = Some(path)
             /\ stages' = Append(started, "binary:ok")
             /\ issued' = iss
             /\ downloads' = downloads + dl
             /\ cache' = c
             /\ pc' = "execute"
             /\ UNCHANGED run_result
       IN
       IF IsErr(platform) THEN Fail(platform.err, issued, 0, cache)
       ELSE IF IsErr(arch) THEN Fail(arch.err, issued, 0, cache)
       ELSE IF lookup /\ latest = "failed"
       THEN Fail(MkError("Binary", "VersionResolution", ""), looked, 0, cache)
       ELSE IF check_cache(cache_dir_ok, cache)
       THEN \* if let Some(cached_path) = check_cache(..) { return Ok(..) }
            Done(BinaryPathOf(version, platform.val, arch.val), looked, 0,
                 cache)
       ELSE \* download_binary
            /\ stop = "remove" => cache.dir
            /\ \E c \in download_leaves(stop, cache) :
                 IF stop = "ok"
                 THEN Done(BinaryPathOf(version, platform.val, arch.val),
                           looked \cup {"download_binary"}, 1, c)
                 ELSE Fail(download_error(stop),
                           looked \cup {"download_binary"}, 1, c)
  /\ UNCHANGED <<config, event_json, event_context, pr_local, execution_result, findings,
                 existing_comments, fetch_outcome, idx, posted, skipped, comments_result,
                 retry, exit_code, engine_log, summary_writes, post_log>>
  /\ UNCHANGED <<call, ret, pr_comment>>

\* run(), step 3: binary::obtain_binary(&config).await?  Whether the cache
\* directory can be determined is settled anew by each call.
ObtainBinaryWith(hostOS, hostArch) ==
  ObtainBinaryIn(hostOS, hostArch, BOOLEAN)

\* The ways the engine process can end: it cannot be spawned, it is killed by
\* a signal (no status), or it exits with a status.
EngineOutcomes ==
  {[spawned |-> FALSE, code |-> None], [spawned |-> TRUE, code |-> None]} \cup
  {[spawned |-> TRUE, code |-> Some(c)] : c \in {0, 1, 2, 3}}
EngineStderr == {"fatal: engine failure"}

\* A mutant of execute_gitleaks: status 1 is returned like any other status.
escalates_none(exit_code_) == FALSE

\* execute_gitleaks: if exit_code == 1 { return Err(GitleaksError) }
escalates(exit_code_) == exit_code_ = ENGINE_ERROR_STATUS

\* run(), step 5: binary::execute_gitleaks(..).await?
ExecuteGitleaks ==
  /\ pc = "execute"
  /\ \E out \in EngineOutcomes, stderr \in EngineStderr :
       LET started == Append(stages, "exec:start")
           code == IF IsSome(out.code) THEN out.code.val ELSE UNKNOWN_STATUS
       IN
       /\ engine_log' = Append(engine_log, out)
       /\ IF ~out.spawned
          THEN /\ Return(Err(MkError("Binary", "ExecutionFailed", "")))
               /\ stages' = started
               /\ UNCHANGED execution_result
          ELSE IF escalates(code)
          THEN /\ Return(Err(MkError("Binary", "GitleaksError", stderr)))
               /\ stages' = started
               /\ UNCHANGED execution_result
          ELSE /\ execution_result' =
                    Some([exit_code |-> code, stdout |-> "",
                          stderr |-> stderr])
               /\ stages' = Append(started, "exec:ok")
               /\ pc' = "match"
               /\ UNCHANGED run_result
  /\ UNCHANGED <<config, event_json, event_context, pr_local, cache,
                 binary_path, findings, existing_comments, fetch_outcome, idx,
                 posted, skipped, comments_result, retry, exit_code, issued,
                 downloads, summary_writes, post_log>>
  /\ UNCHANGED <<call, ret, pr_comment>>

\* ------------------------------------------------------------- report
\* The results a structured report can hold: two with a location and a
\* partial-fingerprints block, one without locations, one without the block.
ResultA ==
  [rule_id |-> "aws-access-token",
   locations |-> <<[uri |-> "src/main.rs", start_line |-> 42]>>,
   partial_fingerprints |->
     Some([commit_sha |-> Some("abc123"), author |-> Some("ann"),
           email |-> Some("ann@x.io"), date |-> Some("2025-01-01")])]
ResultB ==
  [rule_id |-> "generic-api-key",
   locations |-> <<[uri |-> "config.yml", start_line |-> 10]>>,
   partial_fingerprints |->
     Some([commit_sha |-> Some("def456"), author |-> None,
           email |-> None, date |-> None])]
ResultNoLocation == [ResultA EXCEPT !.locations = <<>>]
ResultNoFingerprints == [ResultB EXCEPT !.partial_fingerprints = None]
RunResults == {ResultA, ResultB, ResultNoLocation, ResultNoFingerprints}

\* The report files of the pipeline runs: none at the report path, a file
\* that is not a well-formed report, or a report with its runs of results.
RunReports ==
  {[exists |-> FALSE, wellformed |-> FALSE, runs |-> <<>>],
   [exists |-> TRUE, wellformed |-> FALSE, runs |-> <<>>]} \cup
  [exists : {TRUE}, wellformed : {TRUE},
   runs : {<<>>} \cup {<<r>> : r \in SeqsUpTo(RunResults, MaxResults)} \cup
          {<<r1, r2>> : <<r1, r2>> \in
             {p \in SeqsUpTo(RunResults, MaxResults) \X
                     SeqsUpTo(RunResults, MaxResults) :
                Len(p[1]) + Len(p[2]) <= MaxResults}}]

\* as_deref().unwrap_or("unknown")
unwrap_or_unknown(o) == IF IsSome(o) THEN o.val ELSE "unknown"

\* A mutant of generate_fingerprint: the file path comes first.
generate_fingerprint_path_first(commit_sha, file_path, rule_id, line_number) ==
  file_path \o ":" \o commit_sha \o ":" \o rule_id \o ":" \o
  ToString(line_number)

\* DetectedSecret::generate_fingerprint:
\* format!("{}:{}:{}:{}", commit_sha, file_path, rule_id, line_number)
generate_fingerprint(commit_sha, file_path, rule_id, line_number) ==
  commit_sha \o ":" \o file_path \o ":" \o rule_id \o ":" \o
  ToString(line_number)

\* A mutant of the conversion: a result without a partial-fingerprints block
\* is converted with "unknown" metadata instead of being dropped.
to_detected_secret_keeps_bare(result) ==
  IF result.locations = <<>> THEN None
  ELSE LET location == result.locations[1] IN
       Some([rule_id |-> result.rule_id,
             file_path |-> location.uri,
             line_number |-> location.start_line,
             commit_sha |-> "unknown", author |-> "unknown",
             email |-> "unknown", date |-> "unknown",
             fingerprint |-> generate_fingerprint("unknown", location.uri,
                                                  result.rule_id,
                                                  location.start_line)])

\* impl From<&Result> for Option<DetectedSecret>
to_detected_secret(result) ==
  IF result.locations = <<>> THEN None
  ELSE IF ~IsSome(result.partial_fingerprints) THEN None
  ELSE LET location == result.locations[1]
           fp == result.partial_fingerprints.val
           commit_sha == unwrap_or_unknown(fp.commit_sha) IN
       Some([rule_id |-> result.rule_id,
             file_path |-> location.uri,
             line_number |-> location.start_line,
             commit_sha |-> commit_sha,
             author |-> unwrap_or_unknown(fp.author),
             email |-> unwrap_or_unknown(fp.email),
             date |-> unwrap_or_unknown(fp.date),
             fingerprint |-> generate_fingerprint(commit_sha, location.uri,
                                                  result.rule_id,
                                                  location.start_line)])

\* extract_findings, over the results of one run.
RECURSIVE extract_results(_)
extract_results(results) ==
  IF results = <<>> THEN <<>>
  ELSE LET secret == to_detected_secret(Head(results)) IN
       (IF Head(results).locations = <<>> \/ ~IsSome(secret) THEN <<>>
        ELSE <<secret.val>>) \o extract_results(Tail(results))

\* extract_findings
RECURSIVE extract_findings(_)
extract_findings(runs) ==
  IF runs = <<>> THEN <<>>
  ELSE extract_results(Head(runs)) \o extract_findings(Tail(runs))

\* A mutant of parse_and_extract: a report without runs is an empty report.
parse_and_extract_accepts_no_runs(report) ==
  IF ~report.exists THEN Err(MkError("Sarif", "FileNotFound", ""))
  ELSE IF ~report.wellformed THEN Err(MkError("Sarif", "ParseError", ""))
  ELSE Ok(extract_findings(report.runs))

\* parse_and_extract: parse_sarif_file, parse_sarif_str, extract_findings.
parse_and_extract(report) ==
  IF ~report.exists THEN Err(MkError("Sarif", "FileNotFound", ""))
  ELSE IF ~report.wellformed THEN Err(MkError("Sarif", "ParseError", ""))
  ELSE IF report.runs = <<>>
  THEN Err(MkError("Sarif", "InvalidStructure", ""))
  ELSE Ok(extract_findings(report.runs))

\* ----------------------------------------------------------- comments
\* build_comment_body, as the values it formats into the body.
build_comment_body(rule_id, commit_sha, fingerprint, notify_users) ==
  [rule |-> rule_id, commit |-> commit_sha, fingerprint |-> fingerprint,
   cc |-> notify_users]

\* An unsigned 64-bit JSON number, as its high and low 32-bit halves
\* (hi * 2^32 + lo), and the cast `as u32`, which keeps the low half.
U64(hi, lo) == [hi |-> hi, lo |-> lo]
as_u32(n) == n.lo

\* The review comment of a finding as the remote API returns it once posted.
CommentOf(finding, notify_users) ==
  [body |-> Some(build_comment_body(finding.rule_id, finding.commit_sha,
                                    finding.fingerprint, notify_users)),
   path |-> Some(finding.file_path),
   line |-> Some(U64(0, finding.line_number))]

\* The lists of existing review comments a successful fetch returns.
ExistingResponses ==
  {c \in SUBSET {CommentOf(to_detected_secret(r).val, <<>>) :
                   r \in {ResultA, ResultB}} : Cardinality(c) <= MaxExisting}

\* The empty comment body (as_str().unwrap_or("")).
EmptyBody == [rule |-> "", commit |-> "", fingerprint |-> "", cc |-> <<>>]

\* A mutant of is_duplicate_comment: nothing is a duplicate.
is_duplicate_comment_never(existing, new_body, new_path, new_line) == FALSE

\* is_duplicate_comment: as_str().unwrap_or("") on body and path, and
\* as_u64().unwrap_or(0) as u32 on line.
is_duplicate_comment(existing, new_body, new_path, new_line) ==
  \E comment \in existing :
    LET body == IF IsSome(comment.body) THEN comment.body.val ELSE EmptyBody
        path == IF IsSome(comment.path) THEN comment.path.val ELSE ""
        line == IF IsSome(comment.line) THEN as_u32(comment.line.val) ELSE 0 IN
    body = new_body /\ path = new_path /\ line = new_line

\* ------------------------------------------------------------ summary
\* What a write_summary call meets: GITHUB_STEP_SUMMARY unset (nothing is
\* written, Ok), the file appended to (Ok), or an I/O error on open or write.
SummaryOutcomes == {"unset", "written", "io_error"}

\* A variant of write_summary that discards the I/O error instead of
\* returning it.
write_summary_swallows(outcome) == Ok("unit")

\* write_summary: the result of a call with the given outcome.
write_summary(outcome) ==
  IF outcome = "io_error" THEN Err(MkError("Io", "", "summary")) ELSE Ok("unit")

\* `if config.enable_summary { write_summary(&summary)?; }` followed by
\* Ok(code): the summary of the given kind is written when enabled, an I/O
\* error is propagated by `?`, and otherwise run() returns Ok(code).
SummaryThenReturn(kind, code) ==
  IF config.val.enable_summary
  THEN \E outcome \in SummaryOutcomes :
         /\ summary_writes' =
              Append(summary_writes, [kind |-> kind, outcome |-> outcome])
         /\ IF IsErr(write_summary(outcome))
            THEN /\ Return(Err(write_summary(outcome).err))
                 /\ stages' = Append(stages, "summary:start")
            ELSE /\ Return(Ok(code))
                 /\ stages' = stages \o <<"summary:start", "summary:ok">>
  ELSE /\ Return(Ok(code))
       /\ UNCHANGED <<summary_writes, stages>>

\* --------------------------------------------- run(), step 6: the match
\* A mutant of the findings arm: the engine's status is passed through.
findings_return_code_passthrough(code) == code

\* The `2 =>` arm of run(): Ok(1), whatever the engine's status was.
findings_return_code(code) == 1

\* A mutant of the error arms: the engine's status is replaced by 1.
error_return_code_one(code) == 1

\* The `1 =>` and `code =>` arms of run(): Ok(1), Ok(code)
error_return_code(code) == IF code = 1 THEN 1 ELSE code

\* A mutant of the match: every non-zero status takes the findings arm.
match_arm_nonzero_is_findings(code) ==
  IF code = 0 THEN "clean" ELSE "findings"

\* run(): match execution_result.exit_code { 0 => .., 2 => .., 1 => .., code => .. }
match_arm(code) ==
  IF code = 0 THEN "clean"
  ELSE IF code = FINDINGS_STATUS THEN "findings"
  ELSE "error"

\* The `0 =>` arm of run().
ProcessNoFindings ==
  /\ pc = "match"
  /\ match_arm(execution_result.val.exit_code) = "clean"
  /\ SummaryThenReturn("success", 0)
  /\ UNCHANGED <<config, event_json, event_context, pr_local, cache, binary_path,
                 execution_result, findings, existing_comments, fetch_outcome, idx, posted,
                 skipped, comments_result, retry, exit_code, issued, downloads,
                 engine_log, post_log>>
  /\ UNCHANGED <<call, ret, pr_comment>>

\* The `1 =>` and `code =>` arms of run().
ProcessErrorStatus ==
  /\ pc = "match"
  /\ match_arm(execution_result.val.exit_code) = "error"
  /\ SummaryThenReturn("error", error_return_code(execution_result.val.exit_code))
  /\ UNCHANGED <<config, event_json, event_context, pr_local, cache, binary_path,
                 execution_result, findings, existing_comments, fetch_outcome, idx, posted,
                 skipped, comments_result, retry, exit_code, issued, downloads,
                 engine_log, post_log>>
  /\ UNCHANGED <<call, ret, pr_comment>>

\* A mutant of the comment gate: the comments toggle is not looked at.
comments_gate_ignores_toggle(cfg, ctx) == ctx.event_type = "PullRequest"

\* The `2 =>` arm: if config.enable_comments && matches!(event_type, PullRequest)
comments_gate(cfg, ctx) ==
  cfg.enable_comments /\ ctx.event_type = "PullRequest"

\* The `2 =>` arm of run(), up to the comment gate: parse_and_extract(..)?
ParseReportWith(reports) ==
  /\ pc = "match"
  /\ match_arm(execution_result.val.exit_code) = "findings"
  /\ \E report \in reports :
       LET r == parse_and_extract(report)
           started == Append(stages, "parse:start") IN
       IF IsErr(r)
       THEN /\ Return(Err(r.err))
            /\ stages' = started
            /\ UNCHANGED findings
       ELSE /\ findings' = r.val
            /\ stages' = Append(started, "parse:ok")
            /\ pc' = IF comments_gate(config.val, event_context.val)
                     THEN "post_pr_comments" ELSE "summary"
            /\ UNCHANGED run_result
  /\ UNCHANGED <<config, event_json, event_context, pr_local, cache, binary_path,
                 execution_result, existing_comments, fetch_outcome, idx, posted, skipped,
                 comments_result, retry, exit_code, issued, downloads, engine_log,
                 summary_writes, post_log>>
  /\ UNCHANGED <<call, ret, pr_comment>>

\* ----------------------------------------------------- post_pr_comments
\* A mutant of the descriptor check: every context is taken to have one.
has_pull_request_always(context) == TRUE

\* post_pr_comments: match &context.pull_request { Some(pr) => .., None => .. }
has_pull_request(context) == IsSome(context.pull_request)

\* post_pr_comments up to the first request of fetch_pr_comments: the check
\* for a change-request descriptor and the client of the fetch.
BeginPostComments ==
  /\ pc = "post_pr_comments"
  /\ idx' = 1
  /\ posted' = 0
  /\ skipped' = 0
  /\ IF ~has_pull_request(event_context.val)
     THEN /\ comments_result' = Some(Ok(0))
          /\ stages' = stages \o <<"comments:start", "comments:done">>
          /\ pc' = "summary"
          /\ UNCHANGED <<existing_comments, fetch_outcome, retry>>
     ELSE /\ stages' = Append(stages, "comments:start")
          /\ UNCHANGED comments_result
          /\ \E client \in ClientOutcomes :
               IF client # "ok"
               THEN /\ existing_comments' = {}
                    /\ fetch_outcome' = "failed"
                    /\ pc' = "comment_loop"
                    /\ UNCHANGED retry
               ELSE /\ StartRetry("fetch_pr_comments")
                    /\ pc' = "fetch_comments"
                    /\ UNCHANGED <<existing_comments, fetch_outcome>>
  /\ UNCHANGED <<config, event_json, event_context, pr_local, cache, binary_path,
                 execution_result, findings, run_result, exit_code, issued, downloads,
                 engine_log, summary_writes, post_log>>
  /\ UNCHANGED <<call, ret, pr_comment>>

\* One request of the retried fetch of fetch_pr_comments.
FetchCommentsAttemptWith(responses) ==
  /\ pc = "fetch_comments"
  /\ RetryAttemptWith(responses)
  /\ UNCHANGED <<pc, config, event_json, event_context, pr_local, cache, binary_path,
                 execution_result, findings, existing_comments, fetch_outcome,
                 idx, posted, skipped, comments_result, run_result, exit_code,
                 stages, downloads, engine_log, summary_writes, post_log>>
  /\ UNCHANGED <<call, ret, pr_comment>>

\* A mutant of the match on the fetch result: the error is propagated.
fetch_error_tolerated_no == FALSE

\* post_pr_comments: Err(e) => { log::warn!(..); Vec::new() }
fetch_error_tolerated == TRUE

\* post_pr_comments: the match on the result of fetch_pr_comments.
FinishFetchComments ==
  /\ pc = "fetch_comments"
  /\ retry.status \in {"ok", "err"}
  /\ retry' = NoRetry
  /\ IF retry.status = "ok"
     THEN /\ existing_comments' = retry.value
          /\ fetch_outcome' = "ok"
          /\ pc' = "comment_loop"
          /\ UNCHANGED <<comments_result, stages>>
     ELSE IF fetch_error_tolerated
     THEN /\ existing_comments' = {}
          /\ fetch_outcome' = "failed"
          /\ pc' = "comment_loop"
          /\ UNCHANGED <<comments_result, stages>>
     ELSE /\ comments_result' = Some(Err(retry.value))
          /\ fetch_outcome' = "failed"
          /\ stages' = Append(stages, "comments:done")
          /\ pc' = "summary"
          /\ UNCHANGED existing_comments
  /\ UNCHANGED <<config, event_json, event_context, pr_local, cache, binary_path,
                 execution_result, findings, idx, posted, skipped, run_result,
                 exit_code, issued, downloads, engine_log, summary_writes, post_log>>
  /\ UNCHANGED <<call, ret, pr_comment>>

\* A mutant of the loop: the last finding is left out.
loop_done_early(i, n) == i >= n

\* post_pr_comments: `for finding in findings` has run through the list.
loop_done(i, n) == i > n

\* One iteration of `for finding in findings` up to the first request of
\* post_pr_comment, or the end of the loop and Ok(posted).
CommentLoop ==
  /\ pc = "comment_loop"
  /\ IF loop_done(idx, Len(findings))
     THEN /\ comments_result' = Some(Ok(posted))
          /\ stages' = Append(stages, "comments:done")
          /\ pc' = "summary"
          /\ UNCHANGED <<idx, skipped, retry, post_log, pr_comment>>
     ELSE LET finding == findings[idx]
              comment_body ==
                build_comment_body(finding.rule_id, finding.commit_sha,
                                   finding.fingerprint,
                                   config.val.notify_user_list)
              comment ==
                [body |-> comment_body, commit_id |-> finding.commit_sha,
                 path |-> finding.file_path, line |-> finding.line_number,
                 side |-> "RIGHT"] IN
          /\ UNCHANGED <<comments_result, stages>>
          /\ IF is_duplicate_comment(existing_comments, comment_body,
                                     finding.file_path, finding.line_number)
             THEN /\ skipped' = skipped + 1
                  /\ idx' = idx + 1
                  /\ post_log' = Append(post_log, "skipped")
                  /\ UNCHANGED <<pc, retry, pr_comment>>
             ELSE \E client \in ClientOutcomes :
                    /\ pr_comment' = Some(comment)
                    /\ IF client # "ok"
                       THEN /\ idx' = idx + 1
                            /\ post_log' = Append(post_log, "failed")
                            /\ UNCHANGED <<pc, skipped, retry>>
                       ELSE /\ StartRetry("post_pr_comment")
                            /\ pc' = "post"
                            /\ UNCHANGED <<idx, skipped, post_log>>
  /\ UNCHANGED <<config, event_json, event_context, pr_local, cache, binary_path,
                 execution_result, findings, existing_comments, fetch_outcome,
                 posted, run_result, exit_code, issued, downloads, engine_log,
                 summary_writes>>
  /\ UNCHANGED <<call, ret>>

\* One request of the retried post of post_pr_comment.
PostAttemptWith(texts) ==
  /\ pc = "post"
  /\ RetryAttemptOn({"unit"}, texts)
  /\ UNCHANGED <<pc, config, event_json, event_context, pr_local, cache, binary_path,
                 execution_result, findings, existing_comments, fetch_outcome,
                 idx, posted, skipped, comments_result, run_result, exit_code,
                 stages, downloads, engine_log, summary_writes, post_log>>
  /\ UNCHANGED <<call, ret, pr_comment>>

\* One request of the retried post with the failure texts of the pipeline
\* runs.
PostAttempt == PostAttemptWith(FailureTexts)

\* A mutant of the match on the post result: a failed post ends the loop.
after_failed_post_stop(i, n) == n + 1

\* post_pr_comments: Err(e) => { log::warn!(..) }, the loop goes on.
after_failed_post(i, n) == i + 1

\* A mutant of the count: failed posts are counted too.
count_after_post_always(ok, n) == n + 1

\* post_pr_comments: Ok(_) => { posted += 1 }
count_after_post(ok, n) == IF ok THEN n + 1 ELSE n

\* post_pr_comments: the match on the result of post_pr_comment.
FinishPost ==
  /\ pc = "post"
  /\ retry.status \in {"ok", "err"}
  /\ retry' = NoRetry
  /\ posted' = count_after_post(retry.status = "ok", posted)
  /\ post_log' = Append(post_log,
                        IF retry.status = "ok" THEN "posted" ELSE "failed")
  /\ idx' = IF retry.status = "ok" THEN idx + 1
            ELSE after_failed_post(idx, Len(findings))
  /\ pc' = "comment_loop"
  /\ UNCHANGED <<config, event_json, event_context, pr_local, cache, binary_path,
                 execution_result, findings, existing_comments, fetch_outcome,
                 skipped, comments_result, run_result, exit_code, stages,
                 issued, downloads, engine_log, summary_writes>>
  /\ UNCHANGED <<call, ret, pr_comment>>

\* The `2 =>` arm of run() after the comment gate: the findings summary, the
\* artifact note and Ok(1).
FindingsSummary ==
  /\ pc = "summary"
  /\ SummaryThenReturn("findings",
                       findings_return_code(execution_result.val.exit_code))
  /\ UNCHANGED <<config, event_json, event_context, pr_local, cache, binary_path,
                 execution_result, findings, existing_comments, fetch_outcome,
                 idx, posted, skipped, comments_result, retry, exit_code,
                 issued, downloads, engine_log, post_log>>
  /\ UNCHANGED <<call, ret, pr_comment>>

\* ---------------------------------------------------------------- main
\* A mutant of main(): only a Fatal error exits with 1.
exit_code_of_only_fatal(r) ==
  IF IsOk(r) THEN r.val
  ELSE IF severity(r.err) = "Fatal" THEN 1 ELSE 0

\* main(): the exit code of a result of run().
exit_code_of(r) ==
  IF IsOk(r) THEN r.val
  ELSE IF severity(r.err) = "Expected" THEN 0 ELSE 1

\* main(): process::exit(exit_code)
Exit ==
  /\ pc = "returned"
  /\ exit_code' = Some(exit_code_of(run_result.val))
  /\ pc' = "exited"
  /\ UNCHANGED <<config, event_json, event_context, pr_local, cache, binary_path,
                 execution_result, findings, existing_comments, fetch_outcome,
                 idx, posted, skipped, comments_result, retry, run_result,
                 stages, issued, downloads, engine_log, summary_writes, post_log>>
  /\ UNCHANGED <<call, ret, pr_comment>>

\* ------------------------------------------------------ specification
Next ==
  \/ LoadConfigWith(RunBaseRefs)
  \/ ParseEventContextWith(RunPayloads)
  \/ FetchCommitsAttempt
  \/ FinishPullRequestEvent
  \/ ObtainBinaryWith(RunHostOS, RunHostArch)
  \/ ExecuteGitleaks
  \/ ProcessNoFindings
  \/ ProcessErrorStatus
  \/ ParseReportWith(RunReports)
  \/ BeginPostComments
  \/ FetchCommentsAttemptWith(ExistingResponses)
  \/ FinishFetchComments
  \/ CommentLoop
  \/ PostAttempt
  \/ FinishPost
  \/ FindingsSummary
  \/ Exit

Spec == Init /\ [][Next]_vars

\* ------------------------------------------- repeated obtain_binary calls
\* obtain_binary called again and again on one host, with one configuration
\* and one cache directory that each call finds as the call before left it
\* (the runs of a self-hosted runner, or the calls of a test).
MaxObtains == 3
CacheHostOS == {"linux"}
CacheHostArch == {"x86_64"}
CacheConfigs ==
  {[event_name |-> "push", github_token |-> "", gitleaks_version |-> ver,
    base_ref |-> None, notify_user_list |-> <<>>,
    repository |-> EnvRepository, repository_owner |-> EnvRepositoryOwner,
    enable_summary |-> TRUE, enable_upload_artifact |-> TRUE,
    enable_comments |-> TRUE] : ver \in VersionInputs}

CacheInit ==
  /\ pc = "obtain_binary"
  /\ config \in {Some(c) : c \in CacheConfigs}
  /\ event_json = None
  /\ event_context = None
  /\ pr_local = None
  /\ cache \in {EmptyCache, FullCache}
  /\ binary_path = None
  /\ execution_result = None
  /\ findings = <<>>
  /\ existing_comments = {}
  /\ fetch_outcome = "none"
  /\ idx = 1
  /\ posted = 0
  /\ skipped = 0
  /\ comments_result = None
  /\ retry = NoRetry
  /\ run_result = None
  /\ exit_code = None
  /\ stages = <<>>
  /\ issued = {}
  /\ downloads = 0
  /\ engine_log = <<>>
  /\ summary_writes = <<>>
  /\ post_log = <<>>
  /\ call = NoCall
  /\ ret = None
  /\ pr_comment = None

\* The number of obtain_binary calls made so far.
Obtains == Cardinality({i \in 1..Len(stages) : stages[i] = "binary:start"})

\* One obtain_binary call on the host; the cache root that the first call
\* determined stays the same for the later ones.
ObtainOnHost ==
  /\ Obtains < MaxObtains
  /\ ObtainBinaryIn(CacheHostOS, CacheHostArch, {TRUE})

\* obtain_binary has returned (a path or an error) and is called once more.
ObtainAgain ==
  /\ pc \in {"execute", "returned"}
  /\ Obtains < MaxObtains
  /\ pc' = "obtain_binary"
  /\ run_result' = None
  /\ UNCHANGED <<config, event_json, event_context, pr_local, cache,
                 binary_path, execution_result, findings, existing_comments,
                 fetch_outcome, idx, posted, skipped, comments_result, retry,
                 exit_code, stages, issued, downloads, engine_log,
                 summary_writes, post_log>>
  /\ UNCHANGED <<call, ret, pr_comment>>

CacheNext == ObtainOnHost \/ ObtainAgain
CacheSpec == CacheInit /\ [][CacheNext]_vars

\* --------------------------------------- concurrent obtain_binary calls
\* Two obtain_binary calls (two jobs of one self-hosted runner) running at
\* the same time with one configuration, hence one cache key and one
\* directory `cache`.  Each file-system call of check_cache and
\* download_binary is one step; `call` holds the position of each invocation
\* and `ret` the record of the steps that changed the directory under the
\* other invocation.
Invocations == {1, 2}
RaceConfigs == {c \in CacheConfigs : c.gitleaks_version = "8.24.3"}
InvocationStart == [at |-> "check_cache", result |-> None]
InDirectory == {"extracting", "binary_exists", "chmod"}
Ended == {"returned", "failed"}

RaceInit ==
  /\ pc = "obtain_binary"
  /\ config \in {Some(c) : c \in RaceConfigs}
  /\ event_json = None
  /\ event_context = None
  /\ pr_local = None
  /\ cache \in {EmptyCache, FullCache}
  /\ binary_path = None
  /\ execution_result = None
  /\ findings = <<>>
  /\ existing_comments = {}
  /\ fetch_outcome = "none"
  /\ idx = 1
  /\ posted = 0
  /\ skipped = 0
  /\ comments_result = None
  /\ retry = NoRetry
  /\ run_result = None
  /\ exit_code = None
  /\ stages = <<>>
  /\ issued = {}
  /\ downloads = 0
  /\ engine_log = <<>>
  /\ summary_writes = <<>>
  /\ post_log = <<>>
  /\ pr_comment = None
  /\ call = [fn |-> "obtain_binary",
             inv |-> [i \in Invocations |-> InvocationStart]]
  /\ ret = {}

\* A mutant of runnable: an invocation waits while another one is between
\* its cache lookup and its return.
runnable_exclusive(i, inv) ==
  /\ inv[i].at \notin Ended
  /\ \A j \in Invocations \ {i} : inv[j].at \in {"check_cache"} \cup Ended

\* obtain_binary and download_binary take no lock on the cache directory: an
\* invocation that has not returned can always take its next step.
runnable(i, inv) == inv[i].at \notin Ended

\* The invocations a step of invocation i that deletes or rewrites the
\* directory catches extracting into it or holding a path inside it.
Caught(i, inv, step) ==
  {[by |-> i, step |-> step, other |-> j,
    was |-> IF inv[j].at = "returned" THEN "returned" ELSE "extracting"] :
     j \in {k \in Invocations \ {i} :
              \/ inv[k].at \in InDirectory
              \/ inv[k].at = "returned"}}

\* Invocation i moves to position at; the directory becomes c.
MoveTo(i, at, c) ==
  /\ call' = [call EXCEPT !.inv[i].at = at]
  /\ cache' = c

\* Invocation i returns result r; the directory becomes c.
ReturnFrom(i, r, c) ==
  /\ call' = [call EXCEPT !.inv[i] =
                [at |-> IF IsOk(r) THEN "returned" ELSE "failed",
                 result |-> Some(r)]]
  /\ cache' = c

\* The path obtain_binary returns for the cache key of the configuration.
RacePath ==
  BinaryPathOf(config.val.gitleaks_version,
               Platform_detect("linux").val, Architecture_detect("x86_64").val)

\* obtain_binary: if let Some(cached_path) = check_cache(..) { return Ok(..) }
RaceCheckCache(i) ==
  /\ runnable(i, call.inv)
  /\ call.inv[i].at = "check_cache"
  /\ IF check_cache(TRUE, cache)
     THEN ReturnFrom(i, Ok(RacePath), cache)
     ELSE MoveTo(i, "request", cache)
  /\ UNCHANGED <<ret, downloads>>

\* download_binary: the HTTP request and the read of its body
RaceRequest(i) ==
  /\ runnable(i, call.inv)
  /\ call.inv[i].at = "request"
  /\ downloads' = downloads + 1
  /\ \E stop \in {"request", "status", "body", "ok"} :
       IF stop = "ok" THEN MoveTo(i, "exists", cache)
       ELSE ReturnFrom(i, Err(download_error(stop)), cache)
  /\ UNCHANGED ret

\* download_binary: if extract_dir.exists()
RaceDirExists(i) ==
  /\ runnable(i, call.inv)
  /\ call.inv[i].at = "exists"
  /\ MoveTo(i, IF cache.dir THEN "remove" ELSE "create", cache)
  /\ UNCHANGED <<ret, downloads>>

\* download_binary: std::fs::remove_dir_all(&extract_dir), which fails when
\* the directory is gone by now
RaceRemoveDir(i) ==
  /\ runnable(i, call.inv)
  /\ call.inv[i].at = "remove"
  /\ IF cache.dir
     THEN /\ MoveTo(i, "create", EmptyCache)
          /\ ret' = ret \cup Caught(i, call.inv, "remove")
     ELSE /\ ReturnFrom(i, Err(download_error("remove")), cache)
          /\ UNCHANGED ret
  /\ UNCHANGED downloads

\* download_binary: std::fs::create_dir_all(&extract_dir), which succeeds on
\* a directory that exists
RaceCreateDir(i) ==
  /\ runnable(i, call.inv)
  /\ call.inv[i].at = "create"
  /\ MoveTo(i, "extract", [cache EXCEPT !.dir = TRUE])
  /\ UNCHANGED <<ret, downloads>>

\* download_binary: extract_tar_gz begins to unpack: the binary's file is
\* created (truncated if it is there) and not yet whole
RaceExtractBegin(i) ==
  /\ runnable(i, call.inv)
  /\ call.inv[i].at = "extract"
  /\ IF cache.dir
     THEN /\ MoveTo(i, "extracting",
                    [dir |-> TRUE, binary |-> TRUE, complete |-> FALSE,
                     mode755 |-> FALSE])
          /\ ret' = ret \cup Caught(i, call.inv, "extract")
     ELSE /\ ReturnFrom(i, Err(download_error("extract")), cache)
          /\ UNCHANGED ret
  /\ UNCHANGED downloads

\* download_binary: extract_tar_gz writes the rest of the archive; it fails
\* when the directory or the file it was writing is gone
RaceExtractEnd(i) ==
  /\ runnable(i, call.inv)
  /\ call.inv[i].at = "extracting"
  /\ IF cache.dir /\ cache.binary
     THEN MoveTo(i, "binary_exists", [cache EXCEPT !.complete = TRUE])
     ELSE ReturnFrom(i, Err(download_error("extract")), cache)
  /\ UNCHANGED <<ret, downloads>>

\* download_binary: if !binary_path.exists() { return Err(BinaryNotFound) }
RaceBinaryExists(i) ==
  /\ runnable(i, call.inv)
  /\ call.inv[i].at = "binary_exists"
  /\ IF cache.binary THEN MoveTo(i, "chmod", cache)
     ELSE ReturnFrom(i, Err(download_error("not_found")), cache)
  /\ UNCHANGED <<ret, downloads>>

\* download_binary: metadata, set_mode(0o755), set_permissions, Ok(path)
RaceChmod(i) ==
  /\ runnable(i, call.inv)
  /\ call.inv[i].at = "chmod"
  /\ IF cache.binary
     THEN ReturnFrom(i, Ok(RacePath), [cache EXCEPT !.mode755 = TRUE])
     ELSE ReturnFrom(i, Err(download_error("chmod")), cache)
  /\ UNCHANGED <<ret, downloads>>

\* What no step of an invocation changes.
RaceFrame ==
  UNCHANGED <<pc, config, event_json, event_context, pr_local, binary_path,
              execution_result, findings, existing_comments, fetch_outcome,
              idx, posted, skipped, comments_result, retry, run_result,
              exit_code, stages, issued, engine_log, summary_writes,
              post_log, pr_comment>>

\* The next step of invocation i.
InvocationStep(i) ==
  \/ RaceCheckCache(i) /\ RaceFrame
  \/ RaceRequest(i) /\ RaceFrame
  \/ RaceDirExists(i) /\ RaceFrame
  \/ RaceRemoveDir(i) /\ RaceFrame
  \/ RaceCreateDir(i) /\ RaceFrame
  \/ RaceExtractBegin(i) /\ RaceFrame
  \/ RaceExtractEnd(i) /\ RaceFrame
  \/ RaceBinaryExists(i) /\ RaceFrame
  \/ RaceChmod(i) /\ RaceFrame

RaceNext == \E i \in Invocations : InvocationStep(i)
RaceSpec == RaceInit /\ [][RaceNext]_vars

\* ------------------------------------------------- event resolution alone
\* Config::from_env and parse_event_context for every value of BASE_REF, up
\* to the EventContext that run() goes on with.
EventNext ==
  \/ LoadConfigWith(BaseRefInputs)
  \/ ParseEventContextWith(RunPayloads)
  \/ FetchCommitsAttempt
  \/ FinishPullRequestEvent
EventSpec == Init /\ [][EventNext]_vars

\* ------------------------------------------ post_pr_comments on its own
\* post_pr_comments called with any context (with or without a
\* change-request descriptor) and any findings.
PostConfigs ==
  {[event_name |-> "pull_request", github_token |-> "ghp_t",
    gitleaks_version |-> "8.24.3", base_ref |-> None,
    notify_user_list |-> <<>>,
    repository |-> EnvRepository, repository_owner |-> EnvRepositoryOwner,
    enable_summary |-> TRUE, enable_upload_artifact |-> TRUE,
    enable_comments |-> TRUE]}
PostContexts ==
  [event_type : {"Push", "PullRequest"},
   repository : {[owner |-> "octo", name |-> "app", full_name |-> "octo/app",
                  html_url |-> "https://github.com/octo/app"]},
   base_ref : {"s1"},
   head_ref : {"s2"},
   commits : {<<"s1", "s2">>},
   pull_request :
     {None, Some([number |-> 7,
                  base |-> [sha |-> "b0", ref_name |-> "main"],
                  head |-> [sha |-> "h0", ref_name |-> "topic"]])}]
PostFindings ==
  {extract_findings(<<results>>) :
     results \in {<<>>, <<ResultA>>, <<ResultA, ResultB>>,
                  <<ResultA, ResultA>>}}

PostInit ==
  /\ pc = "post_pr_comments"
  /\ config \in {Some(c) : c \in PostConfigs}
  /\ event_json = None
  /\ event_context \in {Some(c) : c \in PostContexts}
  /\ pr_local = None
  /\ cache = FullCache
  /\ binary_path = None
  /\ execution_result = None
  /\ findings \in PostFindings
  /\ existing_comments = {}
  /\ fetch_outcome = "none"
  /\ idx = 1
  /\ posted = 0
  /\ skipped = 0
  /\ comments_result = None
  /\ retry = NoRetry
  /\ run_result = None
  /\ exit_code = None
  /\ stages = <<>>
  /\ issued = {}
  /\ downloads = 0
  /\ engine_log = <<>>
  /\ summary_writes = <<>>
  /\ post_log = <<>>
  /\ call = NoCall
  /\ ret = None
  /\ pr_comment = None

PostNext ==
  \/ BeginPostComments
  \/ FetchCommentsAttemptWith(ExistingResponses)
  \/ FinishFetchComments
  \/ CommentLoop
  \/ PostAttemptWith(PostErrorTexts)
  \/ FinishPost

PostSpec == PostInit /\ [][PostNext]_vars

\* ------------------------------------- post_pr_comments called a second time
\* A second run on the same change request: post_pr_comments is called again
\* with the same configuration, context and findings; `call` keeps what the
\* first call logged and returned.
PostAgain ==
  /\ pc = "summary"
  /\ call = NoCall
  /\ IsSome(comments_result)
  /\ call' = [fn |-> "post_pr_comments",
              first |-> [post_log |-> post_log,
                         result |-> comments_result.val]]
  /\ pc' = "post_pr_comments"
  /\ comments_result' = None
  /\ existing_comments' = {}
  /\ fetch_outcome' = "none"
  /\ post_log' = <<>>
  /\ pr_comment' = None
  /\ UNCHANGED <<config, event_json, event_context, pr_local, cache,
                 binary_path, execution_result, findings, idx, posted,
                 skipped, retry, run_result, exit_code, stages, issued,
                 downloads, engine_log, summary_writes, ret>>

\* The comments the first call posted, as the remote API returns them.
PostedFirst ==
  IF call = NoCall THEN {}
  ELSE {CommentOf(findings[i], config.val.notify_user_list) :
          i \in {k \in 1..Len(call.first.post_log) :
                   call.first.post_log[k] = "posted"}}

\* The lists of existing comments a successful fetch can return: those of
\* ExistingResponses, with or without the comments posted by the first call
\* (which may have been deleted since).
RemoteComments ==
  ExistingResponses \cup {c \cup PostedFirst : c \in ExistingResponses}

TwiceNext ==
  \/ BeginPostComments
  \/ FetchCommentsAttemptWith(RemoteComments)
  \/ FinishFetchComments
  \/ CommentLoop
  \/ PostAttempt
  \/ FinishPost
  \/ PostAgain

TwiceSpec == PostInit /\ [][TwiceNext]_vars

\* ------------------------------------------- functions called on their own
\* The state in which a function is called on its own: no run is under way.
CallInit ==
  /\ pc = "call"
  /\ config = None
  /\ event_json = None
  /\ event_context = None
  /\ pr_local = None
  /\ cache = EmptyCache
  /\ binary_path = None
  /\ execution_result = None
  /\ findings = <<>>
  /\ existing_comments = {}
  /\ fetch_outcome = "none"
  /\ idx = 1
  /\ posted = 0
  /\ skipped = 0
  /\ comments_result = None
  /\ retry = NoRetry
  /\ run_result = None
  /\ exit_code = None
  /\ stages = <<>>
  /\ issued = {}
  /\ downloads = 0
  /\ engine_log = <<>>
  /\ summary_writes = <<>>
  /\ post_log = <<>>
  /\ call = NoCall
  /\ ret = None
  /\ pr_comment = None

\* The variables of a run, which a function called on its own leaves alone.
run_vars ==
  <<pc, config, event_json, event_context, pr_local, cache, binary_path,
    execution_result, findings, existing_comments, fetch_outcome, idx, posted,
    skipped, comments_result, retry, run_result, exit_code, stages, issued,
    downloads, engine_log, summary_writes, post_log, pr_comment>>

\* The review comments of a fetched list: body and path are a string or
\* missing; line is a number, possibly beyond 32 bits, or missing.
CallBodies ==
  {EmptyBody, build_comment_body("aws-access-token", "abc123",
                                 "abc123:src/main.rs:aws-access-token:42",
                                 <<>>)}
CallPaths == {"", "src/main.rs"}
CallLines == {0, 42}
CallComments ==
  [body : {None} \cup {Some(b) : b \in CallBodies},
   path : {None} \cup {Some(q) : q \in CallPaths},
   line : {None} \cup {Some(U64(hi, lo)) : hi \in {0, 1}, lo \in CallLines}]

\* The subsets of S with at most n elements.
RECURSIVE SetsUpTo(_, _)
SetsUpTo(S, n) ==
  IF n = 0 THEN {{}}
  ELSE LET smaller == SetsUpTo(S, n - 1) IN
       smaller \cup {t \cup {x} : t \in smaller, x \in S}

\* is_duplicate_comment(existing, new_body, new_path, new_line)
CallIsDuplicateComment ==
  /\ call = NoCall
  /\ \E existing \in SetsUpTo(CallComments, MaxExisting),
        new_body \in CallBodies, new_path \in CallPaths,
        new_line \in CallLines :
       /\ call' = [fn |-> "is_duplicate_comment", existing |-> existing,
                   new_body |-> new_body, new_path |-> new_path,
                   new_line |-> new_line]
       /\ ret' = is_duplicate_comment(existing, new_body, new_path, new_line)
  /\ UNCHANGED run_vars

\* A mutant of build_log_opts: a change request whose refs are equal is
\* scanned like a single-commit push.
build_log_opts_single_for_all(context) ==
  IF context.event_type \in {"Push", "PullRequest"}
  THEN IF context.base_ref = context.head_ref THEN "-1"
       ELSE "--no-merges --first-parent " \o context.base_ref \o "^.." \o
            context.head_ref
  ELSE ""

\* build_log_opts
build_log_opts(context) ==
  CASE context.event_type = "Push" ->
         IF context.base_ref = context.head_ref THEN "-1"
         ELSE "--no-merges --first-parent " \o context.base_ref \o "^.." \o
              context.head_ref
    [] context.event_type = "PullRequest" ->
         "--no-merges --first-parent " \o context.base_ref \o "^.." \o
         context.head_ref
    [] OTHER -> ""

\* The event contexts build_log_opts is called with: any event type with any
\* ref fields, commits and descriptor.
CallRefs == {"", "s1", "s2"}
CallContexts ==
  [event_type : {"Push", "PullRequest", "WorkflowDispatch", "Schedule"},
   repository : {[owner |-> "octo", name |-> "app", full_name |-> "octo/app",
                  html_url |-> "https://github.com/octo/app"]},
   base_ref : CallRefs,
   head_ref : CallRefs,
   commits : {<<>>, <<"s1">>},
   pull_request :
     {None, Some([number |-> 7,
                  base |-> [sha |-> "b0", ref_name |-> "main"],
                  head |-> [sha |-> "h0", ref_name |-> "topic"]])}]

\* build_log_opts(&context)
CallBuildLogOpts ==
  /\ call = NoCall
  /\ \E context \in CallContexts :
       /\ call' = [fn |-> "build_log_opts", context |-> context]
       /\ ret' = build_log_opts(context)
  /\ UNCHANGED run_vars

\* The results of the reports parsed on their own: those of the pipeline
\* runs and one with two locations.
ResultTwoLocations ==
  [ResultA EXCEPT !.locations = <<[uri |-> "lib/util.rs", start_line |-> 7],
                                  [uri |-> "src/main.rs", start_line |-> 42]>>]
CallResults == RunResults \cup {ResultTwoLocations}
CallRuns ==
  {<<>>} \cup {<<r>> : r \in SeqsUpTo(CallResults, MaxResults)} \cup
  {<<r1, r2>> : <<r1, r2>> \in
     {p \in SeqsUpTo(CallResults, MaxResults) \X
             SeqsUpTo(CallResults, MaxResults) :
        Len(p[1]) + Len(p[2]) <= MaxResults}}
CallReports ==
  {[exists |-> FALSE, wellformed |-> FALSE, runs |-> <<>>],
   [exists |-> TRUE, wellformed |-> FALSE, runs |-> <<>>]} \cup
  [exists : {TRUE}, wellformed : {TRUE}, runs : CallRuns]

\* parse_and_extract(path)
CallParseAndExtract ==
  /\ call = NoCall
  /\ \E report \in CallReports :
       /\ call' = [fn |-> "parse_and_extract", report |-> report]
       /\ ret' = parse_and_extract(report)
  /\ UNCHANGED run_vars

\* extract_findings(&report), on a report that parse_sarif_str accepted
CallExtractFindings ==
  /\ call = NoCall
  /\ \E runs \in CallRuns \ {<<>>} :
       /\ call' = [fn |-> "extract_findings", runs |-> runs]
       /\ ret' = Ok(extract_findings(runs))
  /\ UNCHANGED run_vars

\* ---- the findings table, over texts given character by character
\* str::replace(c, to) on a text given as the sequence of its characters.
RECURSIVE replace(_, _, _)
replace(text, c, to) ==
  IF text = <<>> THEN <<>>
  ELSE (IF Head(text) = c THEN to ELSE <<Head(text)>>) \o
       replace(Tail(text), c, to)

\* A mutant of escape_html: the ampersand is replaced last.
escape_html_ampersand_last(text) ==
  replace(
    replace(
      replace(
        replace(
          replace(text, "<", <<"&", "l", "t", ";">>),
          ">", <<"&", "g", "t", ";">>),
        "\"", <<"&", "q", "u", "o", "t", ";">>),
      "'", <<"&", "#", "3", "9", ";">>),
    "&", <<"&", "a", "m", "p", ";">>)

\* escape_html
escape_html(text) ==
  replace(
    replace(
      replace(
        replace(
          replace(text, "&", <<"&", "a", "m", "p", ";">>),
          "<", <<"&", "l", "t", ";">>),
        ">", <<"&", "g", "t", ";">>),
      "\"", <<"&", "q", "u", "o", "t", ";">>),
    "'", <<"&", "#", "3", "9", ";">>)

\* The pieces a formatted output is put together from: text of the format
\* string, text of the repository, and text of a field of a finding, which is
\* either pushed as it is or after escape_html.
Template(s) == [src |-> "template", text |-> s]
OfRepository(s) == [src |-> "repository", text |-> s]
OfFinding(field, chars) == [src |-> "finding", field |-> field, chars |-> chars]

\* DetectedSecret::short_sha
short_sha(finding) ==
  IF Len(finding.commit_sha) >= 7 THEN SubSeq(finding.commit_sha, 1, 7)
  ELSE finding.commit_sha

\* DetectedSecret::commit_url
commit_url(finding, repo_url) ==
  <<OfRepository(repo_url), Template("/commit/"),
    OfFinding("commit_sha", finding.commit_sha)>>

\* DetectedSecret::secret_url
secret_url(finding, repo_url) ==
  <<OfRepository(repo_url), Template("/blob/"),
    OfFinding("commit_sha", finding.commit_sha), Template("/"),
    OfFinding("file_path", finding.file_path), Template("#L"),
    Template(ToString(finding.line_number))>>

\* DetectedSecret::file_url
file_url(finding, repo_url) ==
  <<OfRepository(repo_url), Template("/blob/"),
    OfFinding("commit_sha", finding.commit_sha), Template("/"),
    OfFinding("file_path", finding.file_path)>>

\* generate_findings_summary: the row pushed for one finding.
summary_row(repository, finding) ==
  <<Template("<tr>\n"),
    Template("  <td>"), OfFinding("rule_id", escape_html(finding.rule_id)),
    Template("</td>\n"),
    Template("  <td><a href=\"")>> \o commit_url(finding, repository.html_url)
  \o <<Template("\">"), OfFinding("commit_sha", short_sha(finding)),
       Template("</a></td>\n"),
       Template("  <td><a href=\"")>>
  \o secret_url(finding, repository.html_url)
  \o <<Template("\">View Secret</a></td>\n"),
       Template("  <td>"), Template(ToString(finding.line_number)),
       Template("</td>\n"),
       Template("  <td>"), OfFinding("author", escape_html(finding.author)),
       Template("</td>\n"),
       Template("  <td>"), OfFinding("date", escape_html(finding.date)),
       Template("</td>\n"),
       Template("  <td>"), OfFinding("email", escape_html(finding.email)),
       Template("</td>\n"),
       Template("  <td><a href=\"")>>
  \o file_url(finding, repository.html_url)
  \o <<Template("\">"), OfFinding("file_path", escape_html(finding.file_path)),
       Template("</a></td>\n"),
       Template("</tr>\n")>>

\* generate_findings_summary: the rows of `for finding in findings`.
RECURSIVE summary_rows(_, _)
summary_rows(repository, fs) ==
  IF fs = <<>> THEN <<>>
  ELSE summary_row(repository, Head(fs)) \o summary_rows(repository, Tail(fs))

\* generate_findings_summary, from the opening of the table on (the heading
\* line and the header row are fixed text).
generate_findings_summary(repository, fs) ==
  <<Template("<table>\n")>> \o summary_rows(repository, fs) \o
  <<Template("</table>\n")>>

\* The texts of the fields of a finding: plain, and with the characters that
\* are reserved in HTML.
FieldTexts ==
  {<<"a", "b">>, <<"<", "&", ">">>, <<"\"", "x", "'">>}
CallFindings ==
  [rule_id : FieldTexts, file_path : FieldTexts, line_number : {42},
   commit_sha : FieldTexts, author : FieldTexts, email : FieldTexts,
   date : FieldTexts, fingerprint : {<<>>}]
PlainFinding ==
  [rule_id |-> <<"r">>, file_path |-> <<"f">>, line_number |-> 10,
   commit_sha |-> <<"0", "1", "2", "3", "4", "5", "6", "7", "8">>,
   author |-> <<"a">>, email |-> <<"e">>, date |-> <<"d">>,
   fingerprint |-> <<>>]
CallFindingLists ==
  {<<>>} \cup {<<f>> : f \in CallFindings} \cup
  {<<f, PlainFinding>> : f \in CallFindings}
CallRepository ==
  [owner |-> "octo", name |-> "app", full_name |-> "octo/app",
   html_url |-> "https://github.com/octo/app"]

\* generate_findings_summary(&repository, &findings)
CallGenerateFindingsSummary ==
  /\ call = NoCall
  /\ \E fs \in CallFindingLists :
       /\ call' = [fn |-> "generate_findings_summary", findings |-> fs]
       /\ ret' = generate_findings_summary(CallRepository, fs)
  /\ UNCHANGED run_vars

\* ---- the log lines that carry a remote error, character by character
\* str::contains on texts given as sequences of characters.
ContainsChars(text, sub) ==
  \E i \in 1..(Len(text) - Len(sub) + 1) :
    SubSeq(text, i, i + Len(sub) - 1) = sub

\* char::is_ascii_alphanumeric on the characters of the messages below.
is_ascii_alphanumeric(c) == c \notin {" ", "_", ":", "*", "-", "/", "."}

\* Error::sanitized on a message: every ASCII alphanumeric character becomes
\* "***" when the message contains "token" or contains "key".
sanitized(message) ==
  LET flagged == ContainsChars(message, <<"t", "o", "k", "e", "n">>)
                   \/ ContainsChars(message, <<"k", "e", "y">>)
      mask[i \in 0..Len(message)] ==
        IF i = 0 THEN <<>>
        ELSE mask[i - 1] \o
             (IF flagged /\ is_ascii_alphanumeric(message[i])
              THEN <<"*", "*", "*">> ELSE <<message[i]>>)
  IN mask[Len(message)]

\* The text of an error of the remote API in a formatted line.
OfError(chars) == [src |-> "error", chars |-> chars]

\* impl Display for Error / GitHubError (thiserror #[error(..)] attributes)
display(e) ==
  <<Template("GitHub API error: ")>> \o
  (CASE e.kind = "RequestFailed" ->
          <<Template("API request failed with status 0: "), OfError(e.msg)>>
     [] e.kind = "AuthenticationFailed" ->
          <<Template("Authentication failed: "), OfError(e.msg)>>
     [] e.kind = "NotFound" ->
          <<Template("Resource not found: "), OfError(e.msg)>>
     [] e.kind = "NetworkError" ->
          <<Template("Network error: "), OfError(e.msg)>>
     [] OTHER -> <<Template(e.kind)>>)

\* The statements that write an error to the log.
LogSites == {"main", "retry_warn", "retry_error", "fetch_comments", "post"}

\* log::error!("Fatal error: {}", e) in main, the two log statements of
\* retry_with_backoff, and the two log::warn! of post_pr_comments.
log_line(site, e) ==
  CASE site = "main" -> <<Template("Fatal error: ")>> \o display(e)
    [] site = "retry_warn" ->
         <<Template("Request failed (attempt 1/3): ")>> \o display(e) \o
         <<Template(". Retrying in 1s...")>>
    [] site = "retry_error" ->
         <<Template("Request failed after 3 attempts: ")>> \o display(e)
    [] site = "fetch_comments" ->
         <<Template("Failed to fetch existing comments: ")>> \o display(e) \o
         <<Template(". Continuing without deduplication.")>>
    [] OTHER ->
         <<Template("Failed to post comment on src/main.rs:42: ")>> \o
         display(e)

\* A credential, and what e.to_string() of a failed request can hold.
SecretChars == <<"g", "h", "p", "_", "9">>
RemoteMessages ==
  {<<"t", "i", "m", "e", "d", " ", "o", "u", "t">>,
   <<"b", "a", "d", " ", "t", "o", "k", "e", "n", " ">> \o SecretChars,
   <<"a", "p", "i", " ", "k", "e", "y", ":", " ">> \o SecretChars}
RemoteErrors ==
  [cat : {"GitHub"},
   kind : {"RequestFailed", "AuthenticationFailed", "NotFound",
           "NetworkError"},
   msg : RemoteMessages]

\* An error of the remote API reaches one of the log statements.
CallLogError ==
  /\ call = NoCall
  /\ \E site \in LogSites, e \in RemoteErrors :
       /\ call' = [fn |-> "log_error", site |-> site, e |-> e]
       /\ ret' = log_line(site, e)
  /\ UNCHANGED run_vars

\* ---- resolve_version, over version strings given character by character
\* A mutant of trim_start_matches: nothing is removed.
trim_start_matches_nothing(text, c) == text

\* str::trim_start_matches(c)
RECURSIVE trim_start_matches(_, _)
trim_start_matches(text, c) ==
  IF text # <<>> /\ Head(text) = c THEN trim_start_matches(Tail(text), c)
  ELSE text

\* How a call of fetch_latest_version goes: the step that fails, or "ok" with
\* the tag_name of the response.
LatestTagNames ==
  {<<"v", "8", ".", "2">>, <<"8", ".", "2">>, <<"v", "v", "8">>,
   <<"8", "v">>, <<>>}
LatestResponses ==
  {[stop |-> st, tag_name |-> <<>>] :
     st \in {"client", "send", "status", "text", "json", "tag_name"}} \cup
  {[stop |-> "ok", tag_name |-> t] : t \in LatestTagNames}

\* fetch_latest_version: its result and the number of requests it sent.
fetch_latest_version(response) ==
  [result |->
     IF response.stop # "ok"
     THEN Err(MkError("Binary", "VersionResolution", response.stop))
     ELSE Ok(trim_start_matches(response.tag_name, "v")),
   fetches |-> 1,
   requests |-> IF response.stop = "client" THEN 0 ELSE 1]

\* resolve_version
resolve_version(version_input, response) ==
  IF version_input = <<"l", "a", "t", "e", "s", "t">>
  THEN fetch_latest_version(response)
  ELSE [result |-> Ok(version_input), fetches |-> 0, requests |-> 0]

\* The requested version strings.
CallVersionInputs ==
  {<<"l", "a", "t", "e", "s", "t">>, <<"L", "a", "t", "e", "s", "t">>,
   <<"8", ".", "2">>, <<"v", "8", ".", "2">>, <<>>}

\* resolve_version(&config.gitleaks_version)
CallResolveVersion ==
  /\ call = NoCall
  /\ \E version_input \in CallVersionInputs, response \in LatestResponses :
       /\ call' = [fn |-> "resolve_version", version_input |-> version_input,
                   response |-> response]
       /\ ret' = resolve_version(version_input, response)
  /\ UNCHANGED run_vars

\* The (version, platform, arch) triples get_cache_key is called with:
\* versions that end like a platform or an architecture included.
CallVersions ==
  {"8.24.3", "8.24.3-linux", "8.24.3-linux-x64", "8.24.3-arm", "", "-"}
CallTriples ==
  [version : CallVersions, platform : {"Linux", "Darwin", "Windows"},
   arch : {"X64", "Arm64", "Arm"}]

\* get_cache_key called for two triples.
CallGetCacheKey ==
  /\ call = NoCall
  /\ \E a \in CallTriples, b \in CallTriples :
       /\ call' = [fn |-> "get_cache_key", a |-> a, b |-> b]
       /\ ret' = <<get_cache_key(a.version, a.platform, a.arch),
                   get_cache_key(b.version, b.platform, b.arch)>>
  /\ UNCHANGED run_vars

\* The texts escape_html is called with: up to MaxTextLen characters, the
\* five reserved ones and others.
MaxTextLen == 3
EscapeChars == {"&", "<", ">", "\"", "'", "a", ";"}

\* escape_html(text)
CallEscapeHtml ==
  /\ call = NoCall
  /\ \E text \in SeqsUpTo(EscapeChars, MaxTextLen) :
       /\ call' = [fn |-> "escape_html", text |-> text]
       /\ ret' = escape_html(text)
  /\ UNCHANGED run_vars

\* commands::protect called on its own: the binary is looked up or downloaded
\* (`obtained`), the engine is launched with the protect arguments, and the
\* function returns or ends the process, having printed its messages.
CallProtect ==
  /\ call = NoCall
  /\ \E obtained \in {Ok("gitleaks"), Err(download_error("request"))},
        out \in EngineOutcomes, stderr \in EngineStderr,
        staged \in BOOLEAN, verbose \in BOOLEAN :
       LET args == <<"protect", "--source", ".">>
                     \o (IF staged THEN <<"--staged">> ELSE <<>>)
                     \o (IF verbose THEN <<"-v", "--log-level=debug">>
                         ELSE <<>>)
           code == IF IsSome(out.code) THEN out.code.val ELSE UNKNOWN_STATUS
           result ==
             IF ~out.spawned
             THEN Err(MkError("Binary", "ExecutionFailed", ""))
             ELSE IF escalates(code)
             THEN Err(MkError("Binary", "GitleaksError", stderr))
             ELSE Ok([exit_code |-> code, stdout |-> "", stderr |-> stderr])
       IN
       /\ call' = [fn |-> "protect", obtained |-> obtained, out |-> out,
                   args |-> args]
       /\ ret' =
            IF IsErr(obtained)
            THEN [returned |-> Some(obtained), exited |-> None,
                  printed |-> <<>>]
            ELSE IF IsErr(result)
            THEN [returned |-> Some(result), exited |-> None,
                  printed |-> <<>>]
            ELSE CASE result.val.exit_code = 0 ->
                        [returned |-> Some(Ok("unit")), exited |-> None,
                         printed |-> <<"No secrets in staged changes">>]
                   [] result.val.exit_code = 1 ->
                        [returned |-> None, exited |-> Some(1),
                         printed |-> <<"Secrets found in staged changes",
                                       result.val.stdout>>]
                   [] OTHER ->
                        [returned |-> None,
                         exited |-> Some(result.val.exit_code),
                         printed |-> <<"Error: gitleaks exited with code "
                                         \o ToString(result.val.exit_code),
                                       result.val.stderr>>]
  /\ UNCHANGED run_vars

CallNext ==
  \/ CallProtect
  \/ CallEscapeHtml
  \/ CallGetCacheKey
  \/ CallResolveVersion
  \/ CallLogError
  \/ CallIsDuplicateComment
  \/ CallBuildLogOpts
  \/ CallParseAndExtract
  \/ CallExtractFindings
  \/ CallGenerateFindingsSummary
CallSpec == CallInit /\ [][CallNext]_vars

\* ------------------------------------------------------------ claims
\* The status the engine process of the run ended with (-1 for no status).
EngineExited ==
  engine_log # <<>> /\ engine_log[Len(engine_log)].spawned
EngineStatus ==
  LET out == engine_log[Len(engine_log)] IN
  IF IsSome(out.code) THEN out.code.val ELSE UNKNOWN_STATUS
Exited == pc = "exited"
RunEnded == pc \in {"returned", "exited"}
HasSummaryWrite(kind) ==
  \E i \in 1..Len(summary_writes) : summary_writes[i].kind = kind
SummaryWriteFailed ==
  \E i \in 1..Len(summary_writes) : summary_writes[i].outcome = "io_error"
\* The position of a stage event in the history (0 when it did not occur).
StageIndex(ev) ==
  IF \E i \in 1..Len(stages) : stages[i] = ev
  THEN CHOOSE i \in 1..Len(stages) : stages[i] = ev
  ELSE 0
Occurred(ev) == StageIndex(ev) > 0
Count(seq, x) == Cardinality({i \in 1..Len(seq) : seq[i] = x})

\* C1: whenever the engine process exited with status 2, the process exit
\* code is 1 -- for every event type and toggle setting, whatever the outcome
\* of comment posting, and also when report parsing or the summary write
\* fails; such a run never exits with 0.
C1_FindingsExitOne ==
  (Exited /\ EngineExited /\ EngineStatus = FINDINGS_STATUS)
    => exit_code.val = 1

\* C1 witness: a change-request run with findings in which a post failed and
\* the summary was written has exited with 1.
C1_Witness ==
  /\ Exited /\ EngineExited /\ EngineStatus = FINDINGS_STATUS
  /\ event_context.val.event_type = "PullRequest"
  /\ Count(post_log, "failed") > 0
  /\ HasSummaryWrite("findings")
  /\ exit_code.val = 1

\* C2 as stated: for each exit-status branch (status 0, the findings status 2,
\* any other status including the generic-failure status 1), a run with the
\* summary enabled attempts a summary write before it ends.
C2_SummaryAttemptedOnEveryStatus ==
  (RunEnded /\ EngineExited /\ config.val.enable_summary)
    => summary_writes # <<>>

\* C3 as stated: whenever the engine exited with status 0 the process exit
\* code is 0, for every configuration and every outcome of the summary write.
C3_CleanExitZeroAlways ==
  (Exited /\ EngineExited /\ EngineStatus = 0) => exit_code.val = 0

\* C3 amended: whenever the engine exited with status 0, the process exit code
\* is 0 unless the enabled success-summary write failed with an I/O error; in
\* that case run() returns Error::Io and the exit code is 1.
C3_CleanExitZeroUnlessWriteFails ==
  (Exited /\ EngineExited /\ EngineStatus = 0)
    => /\ ~SummaryWriteFailed => exit_code.val = 0
       /\ SummaryWriteFailed =>
            /\ exit_code.val = 1
            /\ config.val.enable_summary
            /\ IsErr(run_result.val) /\ run_result.val.err.cat = "Io"

\* C3 witnesses: a clean run whose success summary was written exits with 0.
C3_Witness ==
  /\ Exited /\ EngineExited /\ EngineStatus = 0
  /\ HasSummaryWrite("success") /\ ~SummaryWriteFailed
  /\ exit_code.val = 0

\* The run was triggered by a push whose payload was read, whose repository
\* block resolved, and whose commits array is present but empty.
EmptyPush ==
  /\ IsSome(config) /\ config.val.event_name = "push"
  /\ IsSome(event_json)
  /\ event_json.val.commits = Some(<<>>)
  /\ IsOk(parse_repository(event_json.val, config.val))

C5_ErrorExitCodes ==
  /\ (Exited /\ IsErr(run_result.val)) =>
       /\ exit_code.val \in {0, 1}
       /\ exit_code.val = 0 <=>
            (run_result.val.err.cat = "Event"
               /\ run_result.val.err.kind = "NoCommits")
  /\ pc = "main" =>
       \A v \in ErrorVariants :
         LET e == MkError(v[1], v[2], "") IN
         /\ severity(e) = "Expected" <=> v = <<"Event", "NoCommits">>
         /\ v \notin (SeverityFatalArms \cup SeverityExpectedArms
                        \cup SeverityNonFatalArms) => severity(e) = "Fatal"

\* C5 witness: a run that ended in a report-structure error has exited with 1.
C5_Witness ==
  /\ Exited /\ IsErr(run_result.val)
  /\ run_result.val.err.cat = "Sarif"
  /\ exit_code.val = 1

\* The state of a retry_with_backoff call: the operation was invoked at most
\* max_retries times; every invocation but a successful last one failed; the
\* call returned an error only after max_retries failed invocations, and then
\* the error of the last of them; max_retries failures end the call.
RetryFrameOk ==
  /\ retry.calls <= max_retries
  /\ retry.calls =
       Len(retry.errs) + (IF retry.status = "ok" THEN 1 ELSE 0)
  /\ retry.status = "running" => retry.calls = retry.attempt
  /\ retry.status = "err" =>
       /\ retry.calls = max_retries
       /\ retry.value = retry.errs[max_retries]
  /\ Len(retry.errs) = max_retries => retry.status = "err"

\* C6: retry_with_backoff invokes its operation at most three times, returns
\* the first success without a further invocation, and after three failures
\* returns the error of the third invocation, whatever the errors are.
C6_RetryAtMostThree ==
  [][/\ RetryFrameOk'
     /\ retry.status \in {"ok", "err"} =>
          (retry' = retry \/ retry'.calls = 0)]_vars

\* C6 witness: a call was exhausted by three failures of which the first and
\* the third differ.
C6_Witness ==
  /\ retry.status = "err"
  /\ Len(retry.errs) = max_retries
  /\ retry.errs[1] # retry.errs[max_retries]
  /\ retry.value = retry.errs[max_retries]

\* C7: post_pr_comments, called with a change-request descriptor, always
\* returns Ok(count) after handling every finding; a failed existing-comment
\* fetch leaves the existing list empty, so that no finding is skipped and a
\* post is attempted for each; a failed post does not end the loop; and count
\* is the number of posts that succeeded.
C7_CommentsPartialFailureTolerant ==
  /\ pc \in {"comment_loop", "post"} =>
       /\ Len(post_log) = idx - 1
       /\ posted = Count(post_log, "posted")
  /\ fetch_outcome = "failed" =>
       /\ existing_comments = {}
       /\ Count(post_log, "skipped") = 0
  /\ IsSome(comments_result) =>
       /\ IsOk(comments_result.val)
       /\ Len(post_log) = Len(findings)
       /\ comments_result.val.val = Count(post_log, "posted")

\* C7 witness: the fetch failed, the first post failed and the second one
\* succeeded, and post_pr_comments returned Ok(1).
C7_Witness ==
  /\ IsSome(comments_result)
  /\ IsSome(event_context.val.pull_request)
  /\ fetch_outcome = "failed"
  /\ post_log = <<"failed", "posted">>
  /\ comments_result.val = Ok(1)

\* C8: an existing-comment fetch or a comment post is issued (and
\* post_pr_comments is entered at all) only if the engine exited with status
\* 2, comments are enabled and the event type is PullRequest.
C8_CommentOpsOnlyWhenGated ==
  (issued \cap CommentOps # {} \/ Occurred("comments:start")) =>
    /\ EngineExited /\ EngineStatus = FINDINGS_STATUS
    /\ config.val.enable_comments
    /\ event_context.val.event_type = "PullRequest"

\* C8 witness: a comment post was issued in a run that has exited.
C8_Witness ==
  /\ Exited /\ "post_pr_comment" \in issued
  /\ EngineStatus = FINDINGS_STATUS
  /\ config.val.enable_comments
  /\ event_context.val.event_type = "PullRequest"

\* C9: in the findings branch the findings summary is written only after
\* comment publication has returned, every finding handled and no request
\* pending; and a run that entered comment publication with the summary
\* enabled attempts the summary write before it ends, whatever the fetch and
\* the posts did.
C9_CommentsCompleteBeforeSummary ==
  /\ (HasSummaryWrite("findings")
        /\ comments_gate(config.val, event_context.val)) =>
       /\ Occurred("comments:done")
       /\ StageIndex("comments:start") < StageIndex("comments:done")
       /\ StageIndex("comments:done") < StageIndex("summary:start")
       /\ IsSome(comments_result)
       /\ Len(post_log) = Len(findings)
       /\ retry = NoRetry
  /\ (RunEnded /\ Occurred("comments:start") /\ config.val.enable_summary) =>
       HasSummaryWrite("findings")

\* C9 witness: the existing-comment fetch failed and every post failed, and
\* the findings summary was written all the same.
C9_Witness ==
  /\ Exited /\ Occurred("comments:start")
  /\ fetch_outcome = "failed"
  /\ Len(post_log) = MaxResults
  /\ Count(post_log, "failed") = Len(post_log)
  /\ HasSummaryWrite("findings")

\* Stage event b occurred only after stage event a.
Before(a, b) ==
  Occurred(b) => (Occurred(a) /\ StageIndex(a) < StageIndex(b))

\* C10: in every run the stages occur in the order event-context resolution,
\* binary acquisition, engine execution, report parsing, publication, each
\* starting only after the stage before it completed successfully; no stage
\* runs twice; the engine is executed at most once, at most one download
\* happens, and the report is parsed only when the engine exited with
\* status 2.
C10_StageOrder ==
  /\ \A i, j \in 1..Len(stages) : stages[i] = stages[j] => i = j
  /\ Before("event:start", "event:ok")
  /\ Before("event:ok", "binary:start")
  /\ Before("binary:start", "binary:ok")
  /\ Before("binary:ok", "exec:start")
  /\ Before("exec:start", "exec:ok")
  /\ Before("exec:ok", "parse:start")
  /\ Before("parse:start", "parse:ok")
  /\ Before("parse:ok", "comments:start")
  /\ Before("comments:start", "comments:done")
  /\ Before("exec:ok", "summary:start")
  /\ (Occurred("summary:start") /\ Occurred("parse:start")) =>
       Before("parse:ok", "summary:start")
  /\ (Occurred("summary:start") /\ Occurred("comments:start")) =>
       Before("comments:done", "summary:start")
  /\ Before("summary:start", "summary:ok")
  /\ Len(engine_log) <= 1
  /\ Len(engine_log) = Count(stages, "exec:start")
  /\ downloads <= 1
  /\ Occurred("parse:start") =>
       (EngineExited /\ EngineStatus = FINDINGS_STATUS)
  /\ HasSummaryWrite("findings") => Occurred("parse:ok")

\* C10 witness: a run that downloaded the binary and went through every stage.
C10_Witness ==
  /\ Exited
  /\ downloads = 1
  /\ stages = <<"event:start", "event:ok", "binary:start", "binary:ok",
                "exec:start", "exec:ok", "parse:start", "parse:ok",
                "comments:start", "comments:done",
                "summary:start", "summary:ok">>

C12_ObtainIdempotent ==
  [][(pc = "obtain_binary" /\ IsSome(binary_path) /\ pc' # pc) =>
       /\ cache' = cache
       /\ downloads' = downloads
       /\ "download_binary" \in issued' => "download_binary" \in issued
       /\ IF pc' = "returned"
          THEN /\ config.val.gitleaks_version = "latest"
               /\ run_result'.val.err.kind = "VersionResolution"
          ELSE /\ pc' = "execute"
               /\ binary_path' = binary_path]_vars

\* C12 witness: a download was followed by a cache hit that returned the same
\* path.
C12_Witness ==
  /\ pc = "execute" /\ IsSome(binary_path)
  /\ Count(stages, "binary:ok") >= 2
  /\ downloads = 1
  /\ cache = FullCache

\* The value of a comment's line as a number, read as the claim reads it:
\* a missing line is 0.
LineMatches(comment, new_line) ==
  IF IsSome(comment.line)
  THEN comment.line.val.hi = 0 /\ comment.line.val.lo = new_line
  ELSE new_line = 0

\* C13 as stated: is_duplicate_comment(existing, B, P, L) is true exactly
\* when some existing comment has body B, path P and line L (a missing body
\* or path read as the empty string, a missing line as 0).
C13_DuplicateExactlyOnEqualFields ==
  call.fn = "is_duplicate_comment" =>
    (ret <=>
       \E comment \in call.existing :
         /\ (IF IsSome(comment.body) THEN comment.body.val ELSE EmptyBody)
              = call.new_body
         /\ (IF IsSome(comment.path) THEN comment.path.val ELSE "")
              = call.new_path
         /\ LineMatches(comment, call.new_line))

C15_ChangeRequestRefsFromFetch ==
  [][(pc = "pr_commits" /\ retry.status \in {"ok", "err"} /\ pc' # pc) =>
       IF retry.status = "err"
       THEN /\ pc' = "returned"
            /\ run_result' = Some(Err(retry.errs[max_retries]))
            /\ event_context' = None
       ELSE LET fetched == filter_fetched(retry.value)
                override == config.val.base_ref
                payload == event_json.val.pull_request.val IN
            IF fetched = <<>>
            THEN /\ pc' = "returned"
                 /\ run_result' = Some(Err(MkError("Event", "NoCommits", "")))
                 /\ event_context' = None
            ELSE /\ pc' = "obtain_binary"
                 /\ event_context'.val.event_type = "PullRequest"
                 /\ event_context'.val.commits = fetched
                 /\ event_context'.val.head_ref = fetched[Len(fetched)]
                 /\ event_context'.val.base_ref =
                      (IF IsSome(override) THEN override.val ELSE fetched[1])
                 /\ event_context'.val.pull_request =
                      Some([number |-> payload.number.val,
                            base |-> [sha |-> payload.base_sha.val,
                                      ref_name |-> payload.base_ref.val],
                            head |-> [sha |-> payload.head_sha.val,
                                      ref_name |-> payload.head_ref.val]])]_vars

\* C15 witness: a change-request context built from two fetched commits,
\* whose shas differ from the base and head sha of the payload.
C15_Witness ==
  /\ IsSome(event_context)
  /\ event_context.val.event_type = "PullRequest"
  /\ event_context.val.commits = <<"s1", "s2">>
  /\ event_context.val.base_ref = "s1"
  /\ event_context.val.head_ref = "s2"
  /\ event_context.val.pull_request.val.base.sha = "b0"
  /\ event_context.val.pull_request.val.head.sha = "h0"

\* C16 as stated: no Push or PullRequest context produced by
\* parse_event_context has an empty base_ref or an empty head_ref, for any
\* payload and any configured base-ref override.
C16_EmptyRefsOnlyForWholeRepository ==
  (IsSome(event_context)
     /\ event_context.val.event_type \in {"Push", "PullRequest"}) =>
    /\ event_context.val.base_ref # ""
    /\ event_context.val.head_ref # ""

\* C17: every EventContext produced by parse_event_context is well-formed for
\* its event type: WorkflowDispatch and Schedule contexts have empty base_ref
\* and head_ref, no commits and no change-request descriptor, and are
\* produced without a remote call; a descriptor is present exactly when the
\* event type is PullRequest; Push and PullRequest contexts have a non-empty
\* commit list whose last sha is head_ref.
C17_ContextWellFormed ==
  IsSome(event_context) =>
    LET ctx == event_context.val IN
    /\ EventType_from_str(config.val.event_name) = Ok(ctx.event_type)
    /\ ctx.event_type \in {"WorkflowDispatch", "Schedule"} =>
         /\ ctx.base_ref = "" /\ ctx.head_ref = ""
         /\ ctx.commits = <<>>
         /\ ctx.pull_request = None
         /\ issued = {}
    /\ IsSome(ctx.pull_request) <=> ctx.event_type = "PullRequest"
    /\ ctx.event_type \in {"Push", "PullRequest"} =>
         /\ ctx.commits # <<>>
         /\ ctx.commits[Len(ctx.commits)] = ctx.head_ref

\* C17 witness: a Schedule context, produced from a payload without a
\* repository block.
C17_Witness ==
  /\ IsSome(event_context)
  /\ event_context.val.event_type = "Schedule"
  /\ event_json.val.repository = None
  /\ event_context.val.base_ref = "" /\ event_context.val.head_ref = ""
  /\ event_context.val.commits = <<>>

\* The range argument over the refs of the calls, written out.
ExpectedRange(base, head) ==
  CASE base = "" /\ head = "" -> "--no-merges --first-parent ^.."
    [] base = "" /\ head = "s1" -> "--no-merges --first-parent ^..s1"
    [] base = "" /\ head = "s2" -> "--no-merges --first-parent ^..s2"
    [] base = "s1" /\ head = "" -> "--no-merges --first-parent s1^.."
    [] base = "s1" /\ head = "s1" -> "--no-merges --first-parent s1^..s1"
    [] base = "s1" /\ head = "s2" -> "--no-merges --first-parent s1^..s2"
    [] base = "s2" /\ head = "" -> "--no-merges --first-parent s2^.."
    [] base = "s2" /\ head = "s1" -> "--no-merges --first-parent s2^..s1"
    [] base = "s2" /\ head = "s2" -> "--no-merges --first-parent s2^..s2"

\* C18: build_log_opts returns "-1" for a Push context with base_ref equal to
\* head_ref, "--no-merges --first-parent {base_ref}^..{head_ref}" for a Push
\* context with differing refs and for every PullRequest context (also with
\* equal refs), and the empty string for WorkflowDispatch and Schedule
\* contexts whatever their ref fields contain.
C18_BuildLogOpts ==
  call.fn = "build_log_opts" =>
    LET ctx == call.context IN
    /\ (ctx.event_type = "Push" /\ ctx.base_ref = ctx.head_ref) => ret = "-1"
    /\ (ctx.event_type = "Push" /\ ctx.base_ref # ctx.head_ref) =>
         ret = ExpectedRange(ctx.base_ref, ctx.head_ref)
    /\ ctx.event_type = "PullRequest" =>
         ret = ExpectedRange(ctx.base_ref, ctx.head_ref)
    /\ ctx.event_type \in {"WorkflowDispatch", "Schedule"} => ret = ""

\* C18 witness: a PullRequest context with equal refs got the range argument.
C18_Witness ==
  /\ call.fn = "build_log_opts"
  /\ call.context.event_type = "PullRequest"
  /\ call.context.base_ref = "s1" /\ call.context.head_ref = "s1"
  /\ ret = "--no-merges --first-parent s1^..s1"

\* C19: an error of severity NonFatal (CacheError, VersionResolution,
\* DiffTooLarge, NotFound, RateLimitExceeded) never ends the run with a
\* non-zero exit code.
C19_NonFatalNeverFailsRun ==
  (Exited /\ IsErr(run_result.val)
     /\ severity(run_result.val.err) = "NonFatal") =>
    exit_code.val = 0

\* C20 as stated: whenever the engine exited with a status other than 0 and 2
\* (the undetermined status -1 included), the process exit code equals that
\* status, for every configuration and every outcome of the summary write.
C20_ErrorStatusPassedThroughAlways ==
  (Exited /\ EngineExited /\ EngineStatus \notin {0, FINDINGS_STATUS})
    => exit_code.val = EngineStatus

\* C20 amended: whenever the engine exited with a status other than 0 and 2
\* (the undetermined status -1 included), the process exit code equals that
\* status unless the enabled error-summary write failed with an I/O error; in
\* that case run() returns Error::Io and the exit code is 1.
C20_ErrorStatusPassedThroughUnlessWriteFails ==
  (Exited /\ EngineExited /\ EngineStatus \notin {0, FINDINGS_STATUS})
    => /\ ~SummaryWriteFailed => exit_code.val = EngineStatus
       /\ SummaryWriteFailed =>
            /\ exit_code.val = 1
            /\ config.val.enable_summary
            /\ IsErr(run_result.val) /\ run_result.val.err.cat = "Io"

\* C20 witness: an engine whose status could not be determined, with the error
\* summary written, made the process exit with -1.
C20_Witness ==
  /\ Exited /\ EngineExited
  /\ engine_log[Len(engine_log)].code = None
  /\ HasSummaryWrite("error") /\ ~SummaryWriteFailed
  /\ exit_code.val = -1

\* C21: once the engine process has run, execute_gitleaks has recorded its
\* status as -1 when it could not be determined; for every status other than
\* 1 it returned an ExecutionResult with that status and the captured stderr,
\* and for status 1 it returned a GitleaksError carrying the captured stderr
\* and no ExecutionResult.
C21_ExecuteGitleaksResult ==
  EngineExited =>
    LET out == engine_log[Len(engine_log)]
        status == IF out.code = None THEN -1 ELSE out.code.val
    IN
    IF status = 1
    THEN /\ execution_result = None
         /\ RunEnded
         /\ IsErr(run_result.val)
         /\ run_result.val.err.cat = "Binary"
         /\ run_result.val.err.kind = "GitleaksError"
         /\ run_result.val.err.msg \in EngineStderr
    ELSE /\ IsSome(execution_result)
         /\ execution_result.val.exit_code = status
         /\ execution_result.val.stderr \in EngineStderr

\* C21 witness: an engine killed without a status gave an ExecutionResult
\* with exit code -1.
C21_Witness ==
  /\ EngineExited
  /\ engine_log[Len(engine_log)].code = None
  /\ IsSome(execution_result)
  /\ execution_result.val.exit_code = -1

\* C22: parsing a report fails with FileNotFound when nothing is at the report
\* path, with ParseError when the content is not a well-formed report, and with
\* InvalidStructure when the run list is empty; a report with at least one run
\* and no results parses successfully and yields an empty Finding list.
C22_ReportParsing ==
  call.fn = "parse_and_extract" =>
    LET report == call.report
        FailsWith(kind) ==
          IsErr(ret) /\ ret.err.cat = "Sarif" /\ ret.err.kind = kind
        NoResults ==
          \A i \in 1..Len(report.runs) : report.runs[i] = <<>>
    IN
    /\ ~report.exists => FailsWith("FileNotFound")
    /\ (report.exists /\ ~report.wellformed) => FailsWith("ParseError")
    /\ (report.exists /\ report.wellformed /\ Len(report.runs) = 0) =>
         FailsWith("InvalidStructure")
    /\ (report.exists /\ report.wellformed /\ Len(report.runs) >= 1
          /\ NoResults) =>
         (IsOk(ret) /\ ret.val = <<>>)

\* C22 witness: a report with one run and no results parsed to an empty list.
C22_Witness ==
  /\ call.fn = "parse_and_extract"
  /\ call.report.exists /\ call.report.wellformed
  /\ call.report.runs = << <<>> >>
  /\ IsOk(ret) /\ ret.val = <<>>

\* The results of all runs of a report, in run order and then result order.
AllResults(runs) ==
  IF Len(runs) = 0 THEN <<>>
  ELSE IF Len(runs) = 1 THEN runs[1]
  ELSE runs[1] \o runs[2]
Extractable(result) ==
  Len(result.locations) >= 1 /\ result.partial_fingerprints # None

\* C23: extract_findings returns exactly one Finding for each result that has
\* at least one location and a partial-fingerprints block, in run order and
\* then result order, built from the result's first location; a result that
\* lacks either is dropped, and the call never fails.
C23_ExtractFindings ==
  call.fn = "extract_findings" =>
    LET kept == SelectSeq(AllResults(call.runs), Extractable) IN
    /\ IsOk(ret)
    /\ Len(ret.val) = Len(kept)
    /\ \A k \in 1..Len(kept) :
         /\ ret.val[k].rule_id = kept[k].rule_id
         /\ ret.val[k].file_path = kept[k].locations[1].uri
         /\ ret.val[k].line_number = kept[k].locations[1].start_line
         /\ ret.val[k].commit_sha = kept[k].partial_fingerprints.val.commit_sha.val

\* C23 witness: of a result without the fingerprints block followed by a
\* result with two locations, the first was dropped and the second gave the
\* one Finding, built from its first location.
C23_Witness ==
  /\ call.fn = "extract_findings"
  /\ call.runs = << <<ResultNoFingerprints, ResultTwoLocations>> >>
  /\ IsOk(ret) /\ Len(ret.val) = 1
  /\ ret.val[1].file_path = "lib/util.rs" /\ ret.val[1].line_number = 7

\* The fingerprint the fields of a finding of the reports give, written out.
ExpectedFingerprint(f) ==
  CASE f.commit_sha = "abc123" /\ f.file_path = "src/main.rs"
         /\ f.rule_id = "aws-access-token" /\ f.line_number = 42 ->
         "abc123:src/main.rs:aws-access-token:42"
    [] f.commit_sha = "def456" /\ f.file_path = "config.yml"
         /\ f.rule_id = "generic-api-key" /\ f.line_number = 10 ->
         "def456:config.yml:generic-api-key:10"
    [] OTHER -> "?"

\* C24: every Finding carries the fingerprint commit_sha ':' file_path ':'
\* rule_id ':' line_number of its own fields from its extraction on; once the
\* report is parsed no step changes the findings, and the review comment
\* built for a finding embeds that finding's fingerprint.
C24_FingerprintStable ==
  /\ [](/\ \A i \in 1..Len(findings) :
             findings[i].fingerprint = ExpectedFingerprint(findings[i])
        /\ pc = "post" =>
             /\ IsSome(pr_comment)
             /\ pr_comment.val.body.fingerprint = findings[idx].fingerprint
             /\ pr_comment.val.body.fingerprint =
                  ExpectedFingerprint(findings[idx]))
  /\ [][Occurred("parse:ok") => findings' = findings]_vars

\* C24 witness: the comment being posted for the second finding of a report
\* embeds that finding's fingerprint.
C24_Witness ==
  /\ pc = "post" /\ idx = 2
  /\ findings[2].fingerprint = "def456:config.yml:generic-api-key:10"
  /\ pr_comment.val.body.fingerprint = "def456:config.yml:generic-api-key:10"

\* A text holds none of the five reserved characters except as the start of
\* one of the five entities escape_html writes.
IsEntityAt(chars, i) ==
  \E ent \in {<<"&", "a", "m", "p", ";">>, <<"&", "l", "t", ";">>,
              <<"&", "g", "t", ";">>, <<"&", "q", "u", "o", "t", ";">>,
              <<"&", "#", "3", "9", ";">>} :
    /\ i + Len(ent) - 1 <= Len(chars)
    /\ SubSeq(chars, i, i + Len(ent) - 1) = ent
HtmlEscaped(chars) ==
  \A i \in 1..Len(chars) :
    /\ chars[i] \notin {"<", ">", "\"", "'"}
    /\ chars[i] = "&" => IsEntityAt(chars, i)

\* C25: in the findings table of generate_findings_summary every piece of
\* text that comes from a field of a finding (rule id, commit sha in link text
\* and in URLs, file path in link text and in URLs, author, date, email) is
\* HTML-escaped.
C25_SummaryEscaped ==
  call.fn = "generate_findings_summary" =>
    \A k \in 1..Len(ret) :
      ret[k].src = "finding" => HtmlEscaped(ret[k].chars)

\* C26: the text of an error of the remote API is sanitized before it is
\* written to the log: no line written for such an error holds the credential
\* of a message that mentions a token or a key.
C26_RemoteErrorsSanitized ==
  call.fn = "log_error" =>
    \A k \in 1..Len(ret) :
      ret[k].src = "error" =>
        /\ ~ContainsChars(ret[k].chars, SecretChars)
        /\ ret[k].chars = sanitized(call.e.msg)

\* C27: post_pr_comments called with a context without a change-request
\* descriptor returns 0 and issues no remote operation at all, neither the
\* fetch of the existing comments nor a post, whatever the findings are.
C27_NoDescriptorNoOp ==
  (event_context.val.pull_request = None /\ pc # "post_pr_comments") =>
    /\ comments_result = Some(Ok(0))
    /\ issued = {}
    /\ retry = NoRetry
    /\ post_log = <<>>
    /\ pr_comment = None

\* C27 witness: the call returned 0 for two findings and a context without a
\* descriptor.
C27_Witness ==
  /\ event_context.val.pull_request = None
  /\ Len(findings) = 2
  /\ comments_result = Some(Ok(0))
  /\ issued = {}

\* C28: retry_with_backoff waits 1 second after the first failed attempt and
\* 2 seconds after the second; it does not wait after a successful attempt
\* nor after the third failed attempt.
C28_BackoffDelays ==
  retry.status # "idle" =>
    LET failed == Len(retry.errs) IN
    /\ failed = 0 => retry.slept = <<>>
    /\ failed = 1 => retry.slept = <<1>>
    /\ failed >= 2 => retry.slept = <<1, 2>>

\* C28 witness: a call that failed three times has waited 1 s and 2 s and
\* not a third time.
C28_Witness ==
  /\ retry.status = "err"
  /\ Len(retry.errs) = 3
  /\ retry.slept = <<1, 2>>

\* C29: resolve_version returns a requested string other than the literal
\* "latest" unchanged and without a remote call; for "latest" it makes one
\* metadata fetch, never a second one, and returns the tag without its
\* leading "v" characters; a fetch that fails (no connection, non-success
\* status, unreadable or malformed body, no tag field) gives a
\* VersionResolution error.
C29_ResolveVersion ==
  call.fn = "resolve_version" =>
    LET input == call.version_input
        response == call.response IN
    IF input # <<"l", "a", "t", "e", "s", "t">>
    THEN /\ ret.result = Ok(input)
         /\ ret.fetches = 0 /\ ret.requests = 0
    ELSE /\ ret.fetches = 1
         /\ ret.requests <= 1
         /\ response.stop # "client" => ret.requests = 1
         /\ response.stop # "ok" =>
              /\ IsErr(ret.result)
              /\ ret.result.err.cat = "Binary"
              /\ ret.result.err.kind = "VersionResolution"
         /\ response.stop = "ok" =>
              /\ IsOk(ret.result)
              /\ LET version == ret.result.val IN
                 /\ version = <<>> \/ version[1] # "v"
                 /\ \E n \in 0..Len(response.tag_name) :
                      response.tag_name = [i \in 1..n |-> "v"] \o version

\* C29 witness: "latest" resolved to 8.2 from the tag v8.2 with one request.
C29_Witness ==
  /\ call.fn = "resolve_version"
  /\ call.version_input = <<"l", "a", "t", "e", "s", "t">>
  /\ call.response.tag_name = <<"v", "8", ".", "2">>
  /\ ret.result = Ok(<<"8", ".", "2">>)
  /\ ret.requests = 1

\* C30: get_cache_key is an injective function of (version, platform, arch):
\* equal triples give the identical key, distinct triples give distinct keys,
\* and the key of (8.24.3, linux, x64) is "gitleaks-8.24.3-linux-x64".
C30_CacheKeyInjective ==
  call.fn = "get_cache_key" =>
    /\ (call.a = call.b) <=> (ret[1] = ret[2])
    /\ call.a = [version |-> "8.24.3", platform |-> "Linux", arch |-> "X64"]
         => ret[1] = "gitleaks-8.24.3-linux-x64"

\* C30 witness: two triples whose versions and architectures could be taken
\* for one another got distinct keys.
C30_Witness ==
  /\ call.fn = "get_cache_key"
  /\ call.a = [version |-> "8.24.3-linux", platform |-> "Linux", arch |-> "Arm"]
  /\ call.b = [version |-> "8.24.3", platform |-> "Linux", arch |-> "Arm64"]
  /\ ret[1] = "gitleaks-8.24.3-linux-linux-arm"
  /\ ret[2] = "gitleaks-8.24.3-linux-arm64"

\* What one character becomes in an escaped text.
EscapedChar(c) ==
  CASE c = "&" -> <<"&", "a", "m", "p", ";">>
    [] c = "<" -> <<"&", "l", "t", ";">>
    [] c = ">" -> <<"&", "g", "t", ";">>
    [] c = "\"" -> <<"&", "q", "u", "o", "t", ";">>
    [] c = "'" -> <<"&", "#", "3", "9", ";">>
    [] OTHER -> <<c>>

\* C31: escape_html replaces every & < > " ' of its input by &amp; &lt; &gt;
\* &quot; &#39; in a single pass (the ampersands the replacements introduce
\* are not escaped again) and leaves every other character unchanged: the
\* result is the concatenation of what each input character becomes.
C31_EscapeSinglePass ==
  call.fn = "escape_html" =>
    LET text == call.text
        upto[i \in 0..Len(text)] ==
          IF i = 0 THEN <<>> ELSE upto[i - 1] \o EscapedChar(text[i])
    IN ret = upto[Len(text)]

\* C31 witness: <a& became &lt;a&amp;.
C31_Witness ==
  /\ call.fn = "escape_html"
  /\ call.text = <<"<", "a", "&">>
  /\ ret = <<"&", "l", "t", ";", "a", "&", "a", "m", "p", ";">>

\* C32: two obtain_binary invocations on one cache key are not mutually
\* excluded: an invocation that has not returned is never made to wait,
\* whatever the other one is doing in the directory (so that a step which
\* deletes or rewrites the directory can fall while the other invocation is
\* extracting into it or holds a path inside it).
C32_NotMutuallyExcluded ==
  call.fn = "obtain_binary" =>
    \A i \in Invocations :
      call.inv[i].at \notin Ended => ENABLED InvocationStep(i)

\* One invocation removed the directory while the other was extracting into
\* it, and that other invocation then failed on the missing directory.
C32_Witness ==
  /\ call.fn = "obtain_binary"
  /\ \E e \in ret :
       /\ e.step = "remove"
       /\ e.was = "extracting"
       /\ call.inv[e.other].at = "failed"

\* The finding at index i duplicates a fetched comment.
DuplicateAt(i) ==
  is_duplicate_comment(existing_comments,
                       build_comment_body(findings[i].rule_id,
                                          findings[i].commit_sha,
                                          findings[i].fingerprint,
                                          config.val.notify_user_list),
                       findings[i].file_path, findings[i].line_number)

\* A retry_with_backoff call for operation op starts in this step.
Starts(op) == retry.op # op /\ retry'.op = op

\* C33: post_pr_comments handles the findings one at a time in list order.
\* The existing comments are fetched once, before anything is posted; a step
\* handles exactly the finding at idx, after all the earlier ones; a
\* duplicate is skipped with no post request; any other finding gets one
\* post_pr_comment call, whose retried requests start only when no other
\* retry is running and have ended when the finding is logged.
C33_OneAtATimeInOrder ==
  [][/\ fetch_outcome # "none" =>
          /\ fetch_outcome' = fetch_outcome
          /\ existing_comments' = existing_comments
          /\ ~Starts("fetch_pr_comments")
     /\ Starts("fetch_pr_comments") =>
          /\ post_log = <<>>
          /\ "post_pr_comment" \notin issued
     /\ Starts("post_pr_comment") =>
          /\ retry = NoRetry
          /\ fetch_outcome # "none"
          /\ idx \in 1..Len(findings)
          /\ Len(post_log) = idx - 1
          /\ ~DuplicateAt(idx)
          /\ pr_comment'.val.path = findings[idx].file_path
     /\ (retry.op = "post_pr_comment" /\ retry'.calls > retry.calls) =>
          /\ Len(post_log) = idx - 1
          /\ idx' = idx
          /\ retry'.calls <= max_retries
     /\ post_log' # post_log =>
          /\ Len(post_log) = idx - 1
          /\ idx \in 1..Len(findings)
          /\ idx' = idx + 1
          /\ retry' = NoRetry
          /\ \E outcome \in {"skipped", "posted", "failed"} :
               /\ post_log' = Append(post_log, outcome)
               /\ outcome = "skipped" <=> DuplicateAt(idx)
               /\ outcome = "skipped" => retry = NoRetry /\ issued' = issued
               /\ outcome = "posted" =>
                    /\ retry.op = "post_pr_comment"
                    /\ retry.status = "ok"
                    /\ retry.calls \in 1..max_retries
               /\ outcome = "failed" =>
                    \/ retry = NoRetry
                    \/ /\ retry.op = "post_pr_comment"
                       /\ retry.status = "err"
                       /\ retry.calls = max_retries
     /\ (comments_result = None /\ comments_result' # None
         /\ has_pull_request(event_context.val)) =>
          Len(post_log) = Len(findings)
    ]_vars

\* The first finding was skipped as a duplicate and the post of the second
\* one is at its second request.
C33_Witness ==
  /\ pc = "post"
  /\ post_log = <<"skipped">>
  /\ retry.op = "post_pr_comment"
  /\ retry.calls = 1
  /\ retry.attempt = 1

\* The (body, path, line) triple of the comment of the finding at index i.
TripleAt(i) ==
  <<build_comment_body(findings[i].rule_id, findings[i].commit_sha,
                       findings[i].fingerprint, config.val.notify_user_list),
    findings[i].file_path, findings[i].line_number>>

\* C34: within one post_pr_comments call no two posted comments have the
\* same (body, path, line) triple.
C34_OnePostPerTriple ==
  \A i, j \in 1..Len(post_log) :
    (i < j /\ post_log[i] = "posted" /\ post_log[j] = "posted") =>
      TripleAt(i) # TripleAt(j)

\* A commit entry with a string id, author name, author email and message.
WellFormedEntry(c) ==
  \A field \in {"id", "name", "email", "message"} : IsSome(c[field])

\* The ids of the well-formed entries of a commits array, in order.
WellFormedIds(entries) ==
  LET kept == SelectSeq(entries, WellFormedEntry) IN
  [i \in 1..Len(kept) |-> kept[i].id.val]

\* The run was triggered by a push whose payload was read and whose
\* repository block resolved.
PushRun ==
  /\ IsSome(config) /\ config.val.event_name = "push"
  /\ IsSome(event_json)
  /\ IsOk(parse_repository(event_json.val, config.val))

chars(text) ==
  CASE text = "" -> <<>>
    [] text = "main" -> <<"m", "a", "i", "n">>
    [] text = "main;id" -> <<"m", "a", "i", "n", ";", "i", "d">>
    [] text = "s1" -> <<"s", "1">>
    [] text = "s2" -> <<"s", "2">>

\* The backquote character, which cannot be written inside a string here.
Backquote == "U+0060"

\* Config::validate_git_ref on the characters of a ref.
validate_git_ref(git_ref) ==
  LET dangerous_chars ==
        {";", "&", "|", "$", Backquote, "\n", "\r", "<", ">"} IN
  IF git_ref = <<>> THEN Ok("unit")
  ELSE IF \E i \in 1..Len(git_ref) : git_ref[i] \in dangerous_chars
  THEN Err(MkError("Config", "InvalidGitRef", "Contains dangerous character"))
  ELSE IF ContainsChars(git_ref, <<".", ".">>)
  THEN Err(MkError("Config", "InvalidGitRef", "Contains path traversal"))
  ELSE Ok("unit")

\* C36: a configured BASE_REF override has passed validate_git_ref before it
\* becomes the base ref of the range expression: no event context of a push
\* or change request carries an override that validate_git_ref rejects.
C36_OverrideValidated ==
  (IsSome(event_context) /\ IsSome(config.val.base_ref)
   /\ event_context.val.event_type \in {"Push", "PullRequest"}) =>
    /\ event_context.val.base_ref = config.val.base_ref.val
    /\ IsOk(validate_git_ref(chars(event_context.val.base_ref)))

\* C37: when the engine launched by protect exits with status 1, protect
\* prints "Secrets found in staged changes" and ends the process with exit
\* code 1; with status 0 it returns Ok; with any other status it ends the
\* process with that status.
C37_ProtectStatus ==
  (call.fn = "protect" /\ IsOk(call.obtained) /\ call.out.spawned
   /\ IsSome(call.out.code)) =>
    LET status == call.out.code.val IN
    CASE status = 1 ->
           /\ ret.exited = Some(1)
           /\ ret.printed[1] = "Secrets found in staged changes"
      [] status = 0 -> ret.returned = Some(Ok("unit")) /\ ret.exited = None
      [] OTHER -> ret.exited = Some(status)

\* The first call posted a comment for the finding at index i and the second
\* call fetched it.
PostedAndFetched(i) ==
  /\ i <= Len(call.first.post_log)
  /\ call.first.post_log[i] = "posted"
  /\ CommentOf(findings[i], config.val.notify_user_list) \in existing_comments

\* C38: in a second post_pr_comments call for the same findings and notify
\* list, a finding whose comment was posted by the first call and is among
\* the fetched existing comments is skipped: no post is started for it, and
\* the count the call returns covers only the other findings.
C38_SecondCallSkipsPosted ==
  (call.fn = "post_pr_comments" /\ fetch_outcome = "ok") =>
    /\ \A i \in 1..Len(post_log) :
         PostedAndFetched(i) => post_log[i] = "skipped"
    /\ pc = "post" => ~PostedAndFetched(idx)
    /\ IsSome(comments_result) =>
         comments_result.val =
           Ok(Cardinality({i \in 1..Len(findings) :
                             post_log[i] = "posted" /\ ~PostedAndFetched(i)}))

\* Both comments of the first call were fetched by the second call, which
\* skipped both findings and returned 0.
C38_Witness ==
  /\ call.fn = "post_pr_comments"
  /\ call.first.post_log = <<"posted", "posted">>
  /\ findings[1] # findings[2]
  /\ fetch_outcome = "ok"
  /\ post_log = <<"skipped", "skipped">>
  /\ comments_result = Some(Ok(0))

\* The error kind the precedence rule gives a failure text: DiffTooLarge
\* when it contains "422" or "Unprocessable", else AuthenticationFailed when
\* it contains "401" or "403", else NotFound when it contains "404", else
\* RequestFailed.
KindByPrecedence(t) ==
  CASE Contains(t, "422") \/ Contains(t, "Unprocessable") -> "DiffTooLarge"
    [] ~(Contains(t, "422") \/ Contains(t, "Unprocessable"))
       /\ (Contains(t, "401") \/ Contains(t, "403")) -> "AuthenticationFailed"
    [] ~(Contains(t, "422") \/ Contains(t, "Unprocessable"))
       /\ ~(Contains(t, "401") \/ Contains(t, "403"))
       /\ Contains(t, "404") -> "NotFound"
    [] OTHER -> "RequestFailed"

\* C39: every failed request of a comment post is recorded as the one error
\* kind that the precedence rule gives its text (the raw text is carried by
\* every kind but DiffTooLarge), and whatever the kind the post is tried
\* again until the third request has failed, whose error is the result.
C39_PostErrorClassified ==
  [][(retry.op = "post_pr_comment" /\ Len(retry'.errs) > Len(retry.errs)) =>
       /\ \E t \in PostErrorTexts :
            retry'.errs =
              Append(retry.errs,
                     MkError("GitHub", KindByPrecedence(t),
                             IF KindByPrecedence(t) = "DiffTooLarge" THEN ""
                             ELSE t))
       /\ retry'.calls = retry.calls + 1
       /\ IF retry'.calls < max_retries
          THEN retry'.status = "running" /\ retry'.attempt = retry.attempt + 1
          ELSE /\ retry'.status = "err"
               /\ retry'.value = retry'.errs[max_retries]
    ]_vars

\* A post failed three times with three different kinds of error, the first
\* two on texts that match two of the tests.
C39_Witness ==
  /\ pc = "post"
  /\ retry.op = "post_pr_comment"
  /\ retry.status = "err"
  /\ retry.calls = max_retries
  /\ retry.errs[1] =
       MkError("GitHub", "AuthenticationFailed", "403 on /pulls/404")
  /\ retry.errs[2] = MkError("GitHub", "DiffTooLarge", "")
  /\ retry.errs[3] = MkError("GitHub", "NotFound", "404 Not Found")

\* ---------------------------------------------- runs under fair scheduling
\* Every external call returns and the runtime keeps polling the one task of
\* main(): a step that can be taken is eventually taken.
LiveSpec == Spec /\ WF_vars(Next)

\* C40: every run ends with an exit code, and on the way each
\* retry_with_backoff call sends at most 3 requests: the commit fetch of a
\* change request and the existing-comment fetch are each started once per
\* run, and a comment post is started once for the finding at idx.
C40_RunTerminates ==
  /\ <>Exited
  /\ [](retry.calls <= max_retries /\ Len(retry.errs) <= max_retries)
  /\ [][/\ Starts("fetch_pr_commits") => "fetch_pr_commits" \notin issued
        /\ Starts("fetch_pr_comments") => "fetch_pr_comments" \notin issued
        /\ Starts("post_pr_comment") => Len(post_log) = idx - 1
        /\ Len(post_log') > Len(post_log) => idx' = idx + 1
        /\ Exited => UNCHANGED vars
       ]_vars

\* A change-request run ended with an exit code after its commit fetch, its
\* comment fetch and a post that failed.
C40_Witness ==
  /\ Exited
  /\ {"fetch_pr_commits", "fetch_pr_comments", "post_pr_comment"} \subseteq issued
  /\ \E i \in 1..Len(post_log) : post_log[i] = "failed"
  /\ fetch_outcome = "failed"

====
